---- MODULE Spec2Model ----
(***************************************************************************)
(* A model of the election scraper: the percentage parser, the data model  *)
(* constructors, the page extractors and the scrape orchestrator with its  *)
(* bounded worker pool.                                                    *)
(*                                                                         *)
(* Python values are tagged records [t |-> type name, v |-> payload].      *)
(* A str is a sequence of tokens: one-character strings, a run of letters  *)
(* being held as one token where no function looks inside it ("Alabama").  *)
(* Digits, blanks and punctuation are always tokens of their own, and a    *)
(* character that a TLA+ string cannot hold is the token of its code       *)
(* point: "xe9", "u0663", "U0001d7ce" (see IsCodeToken).  A token of that  *)
(* shape is always a code point; letters that spell one are written one    *)
(* by one.  urljoin reads its text character by character.                 *)
(* A float is an integer count of 10^-FracDigits units (51.3 is 51300      *)
(* when it is 3); the texts the model feeds to float() have at most        *)
(* FracDigits fractional digits, so the representation is exact on them.   *)
(***************************************************************************)
EXTENDS Integers, Sequences, FiniteSets, TLC

(* ------------------------------------------------------------------ *)
(* Bounds of the model                                                 *)
(* ------------------------------------------------------------------ *)
FracDigits == 3
NumStates == 2
PoolExtra == 1

(* ------------------------------------------------------------------ *)
(* Python values                                                       *)
(* ------------------------------------------------------------------ *)
PyNone == [t |-> "NoneType", v |-> 0]
PyInt(n) == [t |-> "int", v |-> n]
PyFloat(x) == [t |-> "float", v |-> x]
PyStr(s) == [t |-> "str", v |-> s]
PyEnum(m) == [t |-> "Party", v |-> m]

IsNone(x) == x.t = "NoneType"

RECURSIVE Pow10(_)
Pow10(n) == IF n = 0 THEN 1 ELSE 10 * Pow10(n - 1)

Scale == Pow10(FracDigits)

\* The numeric value of an int or a float, in 10^-FracDigits units.
NumVal(x) == IF x.t = "int" THEN x.v * Scale ELSE x.v

\* Python truthiness of the values the program tests with `if x` / `not x`.
Truthy(x) ==
    CASE x.t = "NoneType" -> FALSE
      [] x.t = "str" -> x.v # <<>>
      [] x.t = "int" -> x.v # 0
      [] x.t = "float" -> x.v # 0
      [] x.t = "list" -> x.v # <<>>
      [] x.t = "dict" -> x.v # <<>>
      [] OTHER -> TRUE

(* ------------------------------------------------------------------ *)
(* Text helpers (str methods and the regular expressions of the code)  *)
(* ------------------------------------------------------------------ *)
Digits == {"0", "1", "2", "3", "4", "5", "6", "7", "8", "9"}

\* The characters of a string, as a set.
CharsOf(str) == {SubSeq(str, i, i) : i \in 1..Len(str)}

HEX_DIGITS == CharsOf("0123456789abcdefABCDEF")

\* A character that a TLA+ string cannot hold is the token of its code
\* point, written as Python writes it without the backslash: xNN, uNNNN
\* or UNNNNNNNN in hexadecimal ("x0b" is the vertical tab, "u0663" the
\* Arabic-Indic digit three).  A run of letters of that shape is written
\* letter by letter.  The non-breaking space is also the token nbsp.
IsCodeToken(c) ==
    /\ Len(c) \in {3, 5, 9}
    /\ Head(c) = (IF Len(c) = 3 THEN "x" ELSE IF Len(c) = 5 THEN "u" ELSE "U")
    /\ \A i \in 2..Len(c) : SubSeq(c, i, i) \in HEX_DIGITS

HexValue(c) ==
    CHOOSE k \in 0..15 :
        c \in {SubSeq("0123456789abcdef", k + 1, k + 1), SubSeq("0123456789ABCDEF", k + 1, k + 1)}

RECURSIVE HexNumber(_)
HexNumber(str) ==
    IF Len(str) = 0 THEN 0
    ELSE 16 * HexNumber(SubSeq(str, 1, Len(str) - 1))
         + HexValue(SubSeq(str, Len(str), Len(str)))

\* The code point of a character given by a token of its code point; -1
\* for the other characters, whose code point no function reads.
CodePoint(c) ==
    IF c = "nbsp" THEN 160
    ELSE IF IsCodeToken(c) THEN HexNumber(Tail(c))
    ELSE -1

\* The code points of the digits zero of the scripts of Unicode 14: each
\* is followed by the digits one to nine of its script.  These are the
\* characters of str.isdecimal(), which \d matches and int() and float()
\* convert.
DecimalZeros ==
    {48, 1632, 1776, 1984, 2406, 2534, 2662, 2790, 2918, 3046, 3174, 3302,
     3430, 3558, 3664, 3792, 3872, 4160, 4240, 6112, 6160, 6470, 6608, 6784,
     6800, 6992, 7088, 7232, 7248, 42528, 43216, 43264, 43472, 43504, 43600,
     44016, 65296, 66720, 68912, 69734, 69872, 69942, 70096, 70384, 70736,
     70864, 71248, 71360, 71472, 71904, 72016, 72784, 73040, 73120, 92768,
     92864, 93008, 120782, 120792, 120802, 120812, 120822, 123200, 123632,
     125264, 130032}

\* The ranges of the code points for which str.isdigit() holds and
\* str.isdecimal() does not: superscripts, subscripts, circled digits.
OtherDigitRanges ==
    {<<178, 179>>, <<185, 185>>, <<4969, 4977>>, <<6618, 6618>>, <<8304, 8304>>,
     <<8308, 8313>>, <<8320, 8329>>, <<9312, 9320>>, <<9332, 9340>>,
     <<9352, 9360>>, <<9450, 9450>>, <<9461, 9469>>, <<9471, 9471>>,
     <<10102, 10110>>, <<10112, 10120>>, <<10122, 10130>>, <<68160, 68163>>,
     <<69216, 69224>>, <<69714, 69722>>, <<127232, 127242>>}

IsDecimalCode(n) == \E z \in DecimalZeros : z <= n /\ n <= z + 9

\* str.isdecimal() of a character, and \d.
IsDecimal(c) == c \in Digits \/ (IsCodeToken(c) /\ IsDecimalCode(CodePoint(c)))

\* str.isdigit() of a character.
IsDigit(c) ==
    \/ IsDecimal(c)
    \/ IsCodeToken(c) /\ \E r \in OtherDigitRanges : r[1] <= CodePoint(c) /\ CodePoint(c) <= r[2]

\* The code points for which str.isspace() holds; str.strip() removes
\* these characters and \s matches them.
WhiteSpaceCodes ==
    {9, 10, 11, 12, 13, 28, 29, 30, 31, 32, 133, 160, 5760, 8192, 8193, 8194,
     8195, 8196, 8197, 8198, 8199, 8200, 8201, 8202, 8232, 8233, 8239, 8287,
     12288}

\* The tokens of these characters.
WhiteSpace ==
    {" ", "\t", "\n", "\r", "\f", "x0b", "x1c", "x1d", "x1e", "x1f", "x85", "nbsp",
     "u1680", "u2000", "u2001", "u2002", "u2003", "u2004", "u2005", "u2006",
     "u2007", "u2008", "u2009", "u200a", "u2028", "u2029", "u202f", "u205f",
     "u3000"}

IsSpace(c) == c \in WhiteSpace \/ (IsCodeToken(c) /\ CodePoint(c) \in WhiteSpaceCodes)

\* The value of a decimal digit.
DigitValue(c) ==
    CASE c = "0" -> 0 [] c = "1" -> 1 [] c = "2" -> 2 [] c = "3" -> 3
      [] c = "4" -> 4 [] c = "5" -> 5 [] c = "6" -> 6 [] c = "7" -> 7
      [] c = "8" -> 8 [] c = "9" -> 9
      [] OTHER -> CodePoint(c) - (CHOOSE z \in DecimalZeros : z <= CodePoint(c) /\ CodePoint(c) <= z + 9)

\* int(s) of a text of decimal digits.
RECURSIVE IntOfDigits(_)
IntOfDigits(s) ==
    IF s = <<>> THEN 0
    ELSE 10 * IntOfDigits(SubSeq(s, 1, Len(s) - 1)) + DigitValue(s[Len(s)])

AllDigits(s) == \A i \in 1..Len(s) : IsDigit(s[i])

\* Every character is a decimal digit: int(s) and float(s) do not raise
\* on a text that str.isdigit() accepts.
AllDecimal(s) == \A i \in 1..Len(s) : IsDecimal(s[i])

\* int(s) of a text that str.isdigit() accepts, inside a handler that
\* leaves None when int() raises ValueError (on a superscript, say).
IntOrNone(s) == IF AllDecimal(s) THEN PyInt(IntOfDigits(s)) ELSE PyNone

\* str.isdigit(): non-empty and every character a digit.
IsDigitStr(s) == s # <<>> /\ AllDigits(s)

RECURSIVE LStrip(_)
LStrip(s) ==
    IF s = <<>> THEN s
    ELSE IF IsSpace(Head(s)) THEN LStrip(Tail(s)) ELSE s

RECURSIVE RStrip(_)
RStrip(s) ==
    IF s = <<>> THEN s
    ELSE IF IsSpace(s[Len(s)]) THEN RStrip(SubSeq(s, 1, Len(s) - 1)) ELSE s

Strip(s) == RStrip(LStrip(s))

\* The index of the first occurrence of c in s, 0 when there is none.
FirstIndex(s, c) ==
    IF \E i \in 1..Len(s) : s[i] = c
    THEN CHOOSE i \in 1..Len(s) : s[i] = c /\ \A j \in 1..(i - 1) : s[j] # c
    ELSE 0

Count(s, c) == Cardinality({i \in 1..Len(s) : s[i] = c})

NotPercent(c) == c # "%"
\* Mutant: the filter keeps the digits alone.
IsDigitOnly(c) == IsDigit(c)
IsDigitOrDot(c) == IsDigit(c) \/ c = "."
NotDot(c) == c # "."
\* Mutant: the cleaning removes the commas alone.
NotComma(c) == c # ","
NotCommaOrSpace(c) == c # "," /\ ~IsSpace(c)

\* float() of a text of decimal digits with at most one dot that is neither empty
\* nor the lone dot: "42.5", "42", ".5" and "5." all convert.
FloatOf(s) ==
    LET d == FirstIndex(s, ".")
        ip == IF d = 0 THEN s ELSE SubSeq(s, 1, d - 1)
        fp == IF d = 0 THEN <<>> ELSE SubSeq(s, d + 1, Len(s))
        padded == fp \o [i \in 1..FracDigits |-> "0"]
    IN IntOfDigits(ip) * Scale + IntOfDigits(SubSeq(padded, 1, FracDigits))

\* parse_percentage(text).
parse_percentage(text) ==
    IF text = <<>> THEN PyNone
    ELSE
      LET noPct == SelectSeq(Strip(text), NotPercent)
          kept == SelectSeq(noPct, IsDigitOrDot)
          d == FirstIndex(kept, ".")
          cleaned == IF Count(kept, ".") > 1
                     THEN SubSeq(kept, 1, d)
                          \o SelectSeq(SubSeq(kept, d + 1, Len(kept)), NotDot)
                     ELSE kept
      IN IF cleaned = <<>> \/ cleaned = <<".">> THEN PyNone
         ELSE IF ~AllDecimal(SelectSeq(cleaned, NotDot)) THEN PyNone
         ELSE LET value == FloatOf(cleaned)
              IN IF 0 <= value /\ value <= 100 * Scale
                 THEN PyFloat(value) ELSE PyNone

(* ------------------------------------------------------------------ *)
(* Data model: constructors return [exc, obj]; exc is "" on success     *)
(* ------------------------------------------------------------------ *)
Raised(e) == [exc |-> e, obj |-> PyNone]
Built(o) == [exc |-> "", obj |-> o]

DEMOCRATIC == PyEnum("Democratic")
REPUBLICAN == PyEnum("Republican")
OTHER_PARTY == PyEnum("Other")

\* Mutant: a constructor without its checks.
StateDataUnchecked(state_name, electoral_votes, total_population) ==
    Built([t |-> "StateData",
           v |-> [state_name |-> state_name,
                  electoral_votes |-> electoral_votes,
                  total_population |-> total_population]])

\* StateData.__init__.
StateData(state_name, electoral_votes, total_population) ==
    IF ~Truthy(state_name) \/ state_name.t # "str" THEN Raised("ValueError")
    ELSE IF ~IsNone(electoral_votes) /\ electoral_votes.t # "int"
         THEN Raised("TypeError")
    ELSE IF ~IsNone(total_population) /\ total_population.t # "int"
         THEN Raised("TypeError")
    ELSE Built([t |-> "StateData",
                v |-> [state_name |-> state_name,
                       electoral_votes |-> electoral_votes,
                       total_population |-> total_population]])

\* YearData._check_votes.
check_votes(votes) ==
    CASE votes.t = "NoneType" -> PyNone
      [] votes.t = "str" ->
           LET cleaned_votes == SelectSeq(votes.v, NotCommaOrSpace)
           IN IF IsDigitStr(cleaned_votes)
              THEN IntOrNone(cleaned_votes) ELSE PyNone
      [] votes.t = "float" ->
           IF votes.v % Scale = 0 /\ votes.v >= 0
           THEN PyInt(votes.v \div Scale) ELSE PyNone
      [] votes.t = "int" -> IF votes.v < 0 THEN PyNone ELSE votes
      [] OTHER -> PyNone

\* YearData.__init__.
YearData(year, dem_leader, rep_leader, dem_votes, rep_votes, total_votes, winner_image_url) ==
    IF year.t # "int" THEN Raised("TypeError")
    ELSE IF ~IsNone(dem_leader) /\ dem_leader.t # "str" THEN Raised("TypeError")
    ELSE IF ~IsNone(rep_leader) /\ rep_leader.t # "str" THEN Raised("TypeError")
    ELSE IF ~IsNone(winner_image_url) /\ winner_image_url.t # "str"
         THEN Raised("TypeError")
    ELSE Built([t |-> "YearData",
                v |-> [year |-> year,
                       dem_leader |-> dem_leader,
                       rep_leader |-> rep_leader,
                       winner_image_url |-> winner_image_url,
                       dem_votes |-> check_votes(dem_votes),
                       rep_votes |-> check_votes(rep_votes),
                       total_votes |-> check_votes(total_votes)]])

\* Mutant: a check that lets every value pass.
check_percentage_unchecked(percent) == ""

\* ElectionResult._check_percentage: "" when the value passes.
check_percentage(percent) ==
    IF IsNone(percent) THEN ""
    ELSE IF percent.t \notin {"int", "float"} THEN "TypeError"
    ELSE IF ~(0 <= NumVal(percent) /\ NumVal(percent) <= 100 * Scale)
         THEN "ValueError"
    ELSE ""

\* ElectionResult.__init__.
ElectionResult(state_info, year_info, dem_percentage, rep_percentage, winner) ==
    IF state_info.t # "StateData" THEN Raised("TypeError")
    ELSE IF year_info.t # "YearData" THEN Raised("TypeError")
    ELSE IF check_percentage(dem_percentage) # ""
         THEN Raised(check_percentage(dem_percentage))
    ELSE IF check_percentage(rep_percentage) # ""
         THEN Raised(check_percentage(rep_percentage))
    ELSE Built([t |-> "ElectionResult",
                v |-> [state_info |-> state_info,
                       year_info |-> year_info,
                       dem_percentage |-> dem_percentage,
                       rep_percentage |-> rep_percentage,
                       winner |-> winner]])

(* ------------------------------------------------------------------ *)
(* Python dicts with string keys are functions; {} is the empty one     *)
(* ------------------------------------------------------------------ *)
EmptyDict == [k \in {} |-> PyNone]

\* dict.get(key), None being the default.
DictGet(d, k) == IF k \in DOMAIN d THEN d[k] ELSE PyNone

(* ------------------------------------------------------------------ *)
(* State list extractor                                                *)
(* A directory page is NoSoup or [content_area, links]; a link is       *)
(* [href, text], its href held as href.split('/') and its text as the   *)
(* characters of the anchor.                                           *)
(* ------------------------------------------------------------------ *)
NoSoup == [t |-> "NoneType", v |-> 0]

\* a[href^="/states/"] and href.startswith('/states/').
HrefInStates(h) == Len(h) >= 3 /\ h[1] = "" /\ h[2] = "states"

\* re.sub(r'\s*\(.*\)\s*$', '', s).  A match ends with the ")" that is
\* the last character of the text, whitespace aside, and "." matches no
\* newline: the match starts at the whitespace before the first "(" with
\* no newline between it and that ")".  Without such a "(" the text
\* stands.
StripParenSuffix(s) ==
    LET r == RStrip(s)
        k == Len(r)
        opens == {j \in 1..(k - 1) :
                    s[j] = "(" /\ \A m \in (j + 1)..(k - 1) : s[m] # "\n"}
    IN IF r # <<>> /\ r[k] = ")" /\ opens # {}
       THEN RStrip(SubSeq(s, 1, (CHOOSE j \in opens : \A i \in opens : j <= i) - 1))
       ELSE s

RECURSIVE DropDigits(_)
DropDigits(s) ==
    IF s = <<>> THEN s
    ELSE IF IsDecimal(Head(s)) THEN DropDigits(Tail(s)) ELSE s

\* re.sub(r'^\s*\d+\s*', '', s).
StripLeadingNumber(s) ==
    LET l == LStrip(s)
    IN IF l # <<>> /\ IsDecimal(Head(l)) THEN LStrip(DropDigits(l)) ELSE s

\* The cleaned state name of an anchor text.
CleanStateName(text) ==
    Strip(StripLeadingNumber(Strip(StripParenSuffix(Strip(text)))))

HasName(state_links, name) ==
    \E i \in 1..Len(state_links) : state_links[i].name = name

RECURSIVE LinksLoop(_, _)
LinksLoop(links, state_links) ==
    IF links = <<>> THEN state_links
    ELSE
      LET link == Head(links)
          href == link.href
          state_name == CleanStateName(link.text)
          keep == /\ HrefInStates(href)
                  /\ Len(href) = 3
                  /\ href # <<"", "states", "">>
                  /\ state_name # <<>>
                  /\ state_name # <<"States A-Z">>
                  /\ ~HasName(state_links, state_name)
      IN LinksLoop(Tail(links),
                   IF keep
                   THEN Append(state_links, [name |-> state_name, href |-> href])
                   ELSE state_links)

\* parse_state_links(soup): the dict as the sequence of its items, in
\* insertion order.
parse_state_links(soup) ==
    IF IsNone(soup) THEN <<>>
    ELSE IF ~soup.content_area THEN <<>>
    ELSE LinksLoop(SelectSeq(soup.links, LAMBDA l : HrefInStates(l.href)), <<>>)

(* ------------------------------------------------------------------ *)
(* State page extractor                                                *)
(* A state page is NoSoup or [ev_heading_span, ev_alt_span, table]:     *)
(* the text of the span after the ELECTORAL VOTES heading, the text of  *)
(* the large-font span (each PyNone when the element is missing), and   *)
(* the recent_elections table as PyNone or a list of toggle rows.       *)
(* A row is [hidden, ncells, year_text, nested]; nested is PyNone when  *)
(* the second cell holds no table row, else the list of the texts of    *)
(* the nested cells.                                                   *)
(* ------------------------------------------------------------------ *)
PyList(s) == [t |-> "list", v |-> s]

\* The text of a span is all digits.
SpanIsDigit(span) == ~IsNone(span) /\ IsDigitStr(Strip(span.v))

\* parse_state_details(soup).  An int() that raises ends the try block:
\* the votes stay None and the fallback strategy is not tried.
parse_state_details(soup) ==
    IF IsNone(soup) THEN [electoral_votes |-> PyNone, total_population |-> PyNone]
    ELSE
    LET first == IF SpanIsDigit(soup.ev_heading_span)
                 THEN IntOrNone(Strip(soup.ev_heading_span.v))
                 ELSE PyNone
        second == IF ~SpanIsDigit(soup.ev_heading_span) /\ SpanIsDigit(soup.ev_alt_span)
                  THEN IntOrNone(Strip(soup.ev_alt_span.v))
                  ELSE first
    IN [electoral_votes |-> second, total_population |-> PyNone]

\* re.match(r'(\d{4})', year_text): the year, or PyNone.
YearOf(year_text) ==
    IF Len(year_text) >= 4 /\ AllDecimal(SubSeq(year_text, 1, 4))
    THEN PyInt(IntOfDigits(SubSeq(year_text, 1, 4)))
    ELSE PyNone

\* Mutant: a membership test that always succeeds.
InListAlways(x, list) == TRUE
InList(x, list) == \E i \in 1..Len(list) : list[i] = x

\* Mutant: equal percentages give a fourth tag.
RowWinnerUnknown(dem_pct, rep_pct) ==
    IF ~IsNone(dem_pct) /\ ~IsNone(rep_pct)
    THEN IF dem_pct.v > rep_pct.v THEN DEMOCRATIC
         ELSE IF rep_pct.v > dem_pct.v THEN REPUBLICAN
         ELSE PyEnum("Unknown")
    ELSE PyNone

\* The winner of a row whose nested row was found.
RowWinner(dem_pct, rep_pct) ==
    IF ~IsNone(dem_pct) /\ ~IsNone(rep_pct)
    THEN IF dem_pct.v > rep_pct.v THEN DEMOCRATIC
         ELSE IF rep_pct.v > dem_pct.v THEN REPUBLICAN
         ELSE OTHER_PARTY
    ELSE PyNone

\* Mutant: the row loop without the test of the year against target_years.
ParseRowNoFilter(row, target_years) ==
    IF row.hidden THEN <<>>
    ELSE IF row.ncells < 2 THEN <<>>
    ELSE
      LET year == YearOf(Strip(row.year_text))
      IN IF IsNone(year) THEN <<>>
         ELSE
           LET nested_cells == IF IsNone(row.nested) THEN <<>> ELSE row.nested.v
               dem_pct == IF Len(nested_cells) >= 1
                          THEN parse_percentage(Strip(nested_cells[1]))
                          ELSE PyNone
               rep_pct == IF Len(nested_cells) >= 3
                          THEN parse_percentage(Strip(nested_cells[3]))
                          ELSE PyNone
               winner == IF IsNone(row.nested) THEN PyNone
                         ELSE RowWinner(dem_pct, rep_pct)
           IN << [year |-> year,
                  dem_leader |-> PyNone,
                  rep_leader |-> PyNone,
                  dem_pct |-> dem_pct,
                  rep_pct |-> rep_pct,
                  dem_votes |-> PyNone,
                  rep_votes |-> PyNone,
                  total_votes |-> PyNone,
                  winner |-> winner] >>

\* One iteration of the row loop of parse_election_results_table: the
\* dicts appended for this row (none or one).
ParseRow(row, target_years) ==
    IF row.hidden THEN <<>>
    ELSE IF row.ncells < 2 THEN <<>>
    ELSE
      LET year == YearOf(Strip(row.year_text))
      IN IF IsNone(year) \/ ~InList(year.v, target_years) THEN <<>>
         ELSE
           LET nested_cells == IF IsNone(row.nested) THEN <<>> ELSE row.nested.v
               dem_pct == IF Len(nested_cells) >= 1
                          THEN parse_percentage(Strip(nested_cells[1]))
                          ELSE PyNone
               rep_pct == IF Len(nested_cells) >= 3
                          THEN parse_percentage(Strip(nested_cells[3]))
                          ELSE PyNone
               winner == IF IsNone(row.nested) THEN PyNone
                         ELSE RowWinner(dem_pct, rep_pct)
           IN << [year |-> year,
                  dem_leader |-> PyNone,
                  rep_leader |-> PyNone,
                  dem_pct |-> dem_pct,
                  rep_pct |-> rep_pct,
                  dem_votes |-> PyNone,
                  rep_votes |-> PyNone,
                  total_votes |-> PyNone,
                  winner |-> winner] >>

RECURSIVE RowsLoop(_, _)
RowsLoop(rows, target_years) ==
    IF rows = <<>> THEN <<>>
    ELSE ParseRow(Head(rows), target_years) \o RowsLoop(Tail(rows), target_years)

\* parse_election_results_table(soup, target_years), the definition in
\* force (the second of the file).
parse_election_results_table(soup, target_years) ==
    IF IsNone(soup) THEN <<>>
    ELSE IF IsNone(soup.table) THEN <<>>
    ELSE RowsLoop(soup.table.v, target_years)

(* ------------------------------------------------------------------ *)
(* HTTP: a response is [outcome, soup]; outcome "ok" carries the parsed *)
(* page, any other outcome names the exception the GET or the parse     *)
(* raised.                                                             *)
(* ------------------------------------------------------------------ *)
OkResponse(page) == [outcome |-> "ok", soup |-> page]
FailedResponse(e) == [outcome |-> e, soup |-> NoSoup]

\* Mutant: raise_for_status() is left out, so the body of an error
\* response is parsed like a page.
fetch_and_parse_no_status_check(response) ==
    IF response.outcome \in {"ok", "HTTPError"} THEN response.soup ELSE NoSoup
\* fetch_and_parse(url, session, delay_seconds), given the response to
\* the GET of url: every exception becomes None.
fetch_and_parse(response) ==
    IF response.outcome = "ok" THEN response.soup ELSE NoSoup

(* ------------------------------------------------------------------ *)
(* National year extractor                                             *)
(* A national page is [winner_div_src, alt_src, tbody,                  *)
(* candidate_images]: the src of the img of div.winner-image and of     *)
(* div.presidential_candidate_winner (PyNone when missing), the rows of *)
(* the results table body (PyNone when no body is found) and the        *)
(* img.candidate-image elements as [alt_parties, src].  A row is        *)
(* [ncells, party, name, electoral_votes, popular_votes, winner_class]. *)
(* ------------------------------------------------------------------ *)
BASE_URL == "https://www.270towin.com"

TARGET_PARTIES == << <<"Democratic">>, <<"Republican">> >>

(* urllib.parse, as far as urljoin goes.  A URL is read character by    *)
(* character, whatever the tokens of its text are; the parts of a URL   *)
(* are sequences of characters, its scheme a string.                   *)

\* The characters of a text, token by token: the token of a code point
\* is one character, any other token is spelled out.
RECURSIVE Chars(_)
Chars(s) ==
    IF s = <<>> THEN <<>>
    ELSE (IF Head(s) = "nbsp" \/ IsCodeToken(Head(s)) THEN <<Head(s)>>
          ELSE [i \in 1..Len(Head(s)) |-> SubSeq(Head(s), i, i)])
         \o Chars(Tail(s))

\* ''.join(cs) of characters of a scheme.
RECURSIVE JoinChars(_)
JoinChars(cs) == IF cs = <<>> THEN "" ELSE Head(cs) \o JoinChars(Tail(cs))

LowerLetters == "abcdefghijklmnopqrstuvwxyz"
UpperLetters == "ABCDEFGHIJKLMNOPQRSTUVWXYZ"

\* str.lower() of one character of a scheme.
ToLower(c) ==
    IF c \in CharsOf(UpperLetters)
    THEN LET i == CHOOSE k \in 1..Len(UpperLetters) : SubSeq(UpperLetters, k, k) = c
         IN SubSeq(LowerLetters, i, i)
    ELSE c

uses_relative ==
    {"", "ftp", "http", "gopher", "nntp", "imap", "wais", "file", "https",
     "shttp", "mms", "prospero", "rtsp", "rtsps", "rtspu", "sftp", "svn",
     "svn+ssh", "ws", "wss"}

uses_netloc ==
    {"", "ftp", "http", "gopher", "nntp", "telnet", "imap", "wais", "file",
     "mms", "https", "shttp", "snews", "prospero", "rtsp", "rtsps", "rtspu",
     "rsync", "svn", "svn+ssh", "sftp", "nfs", "git", "git+ssh", "ws", "wss"}

uses_params ==
    {"", "ftp", "hdl", "prospero", "http", "imap", "https", "shttp", "rtsp",
     "rtsps", "rtspu", "sip", "sips", "mms", "sftp", "tel"}

scheme_chars == CharsOf(LowerLetters) \cup CharsOf(UpperLetters) \cup Digits \cup {"+", "-", "."}

\* The characters 0x00 to 0x20.
WHATWG_C0_CONTROL_OR_SPACE(c) ==
    c \in {" ", "\t", "\n", "\r", "\f"} \/ (IsCodeToken(c) /\ CodePoint(c) <= 32)

UNSAFE_URL_BYTES_TO_REMOVE(c) == c \in {"\t", "\r", "\n"} \/ CodePoint(c) \in {9, 10, 13}

\* The characters of a netloc whose NFKC form holds one of / ? # @ :
\* (the fullwidth solidus, the account-of sign); _checknetloc refuses a
\* netloc that holds one.
NetlocBadCodes ==
    {8263, 8264, 8265, 8448, 8449, 8453, 8454, 10868, 65043, 65046, 65109,
     65110, 65119, 65131, 65283, 65295, 65306, 65311, 65312}

\* _checknetloc(netloc) raises.
NetlocRefused(netloc) ==
    \E i \in 1..Len(netloc) : IsCodeToken(netloc[i]) /\ CodePoint(netloc[i]) \in NetlocBadCodes

\* url.lstrip(_WHATWG_C0_CONTROL_OR_SPACE).
RECURSIVE LStripC0(_)
LStripC0(s) ==
    IF s = <<>> THEN s
    ELSE IF WHATWG_C0_CONTROL_OR_SPACE(Head(s)) THEN LStripC0(Tail(s)) ELSE s

\* s.find(c, start), counted from 1: 0 when c is not found.
FindFrom(s, c, start) ==
    IF \E i \in start..Len(s) : s[i] = c
    THEN CHOOSE i \in start..Len(s) : s[i] = c /\ \A j \in start..(i - 1) : s[j] # c
    ELSE 0

\* s.rfind(c), counted from 1: 0 when c is not found.
LastIndex(s, c) ==
    IF \E i \in 1..Len(s) : s[i] = c
    THEN CHOOSE i \in 1..Len(s) : s[i] = c /\ \A j \in (i + 1)..Len(s) : s[j] # c
    ELSE 0

\* s.split(sep) for a separator of one character.
RECURSIVE Split(_, _)
Split(s, sep) ==
    IF FirstIndex(s, sep) = 0 THEN <<s>>
    ELSE <<SubSeq(s, 1, FirstIndex(s, sep) - 1)>>
         \o Split(SubSeq(s, FirstIndex(s, sep) + 1, Len(s)), sep)

\* sep.join(parts).
RECURSIVE Join(_, _)
Join(parts, sep) ==
    IF parts = <<>> THEN <<>>
    ELSE IF Len(parts) = 1 THEN parts[1]
    ELSE parts[1] \o <<sep>> \o Join(Tail(parts), sep)

\* s.partition(c)[0] and s.partition(c)[2].
BeforeChar(s, c) == IF FirstIndex(s, c) = 0 THEN s ELSE SubSeq(s, 1, FirstIndex(s, c) - 1)
AfterChar(s, c) == IF FirstIndex(s, c) = 0 THEN <<>> ELSE SubSeq(s, FirstIndex(s, c) + 1, Len(s))

\* ipaddress: _BaseV4._parse_octet succeeds.
IsOctet(o) ==
    /\ o # <<>>
    /\ \A i \in 1..Len(o) : o[i] \in Digits
    /\ Len(o) <= 3
    /\ (o = <<"0">> \/ o[1] # "0")
    /\ IntOfDigits(o) <= 255

IsOctets(octets) == Len(octets) = 4 /\ \A i \in 1..4 : IsOctet(octets[i])

\* ipaddress: IPv4Address(s) succeeds.
IsIPv4Address(s) == s # <<>> /\ IsOctets(Split(s, "."))

\* ipaddress: _BaseV6._parse_hextet succeeds.
IsHextet(h) == h # <<>> /\ Len(h) <= 4 /\ \A i \in 1..Len(h) : h[i] \in HEX_DIGITS

\* _ip_int_from_string with a "::" at skip_index: parts_hi parts before it
\* and parts_lo after it are parsed, and at least one hextet is skipped.
IsSkipped(parts, parts_hi, parts_lo) ==
    /\ parts[1] = <<>> => parts_hi = 0
    /\ parts[Len(parts)] = <<>> => parts_lo = 0
    /\ 8 - (parts_hi + parts_lo) >= 1
    /\ \A i \in 1..parts_hi : IsHextet(parts[i])
    /\ \A i \in (Len(parts) - parts_lo + 1)..Len(parts) : IsHextet(parts[i])

\* The parts that are empty, the first and the last aside.
Skips(parts) == {i \in 2..(Len(parts) - 1) : parts[i] = <<>>}

IsSkippedAt(parts, skip_index) ==
    IsSkipped(parts,
              IF parts[1] = <<>> THEN skip_index - 2 ELSE skip_index - 1,
              IF parts[Len(parts)] = <<>> THEN Len(parts) - skip_index - 1
              ELSE Len(parts) - skip_index)

\* _ip_int_from_string, from the check of the number of parts on.
IsHextets(parts) ==
    /\ Len(parts) <= 9
    /\ Cardinality(Skips(parts)) <= 1
    /\ IF Skips(parts) = {}
       THEN Len(parts) = 8 /\ \A i \in 1..8 : IsHextet(parts[i])
       ELSE IsSkippedAt(parts, CHOOSE i \in Skips(parts) : TRUE)

\* _ip_int_from_string of the parts between colons.  An IPv4 suffix is
\* replaced by its two hextets, which always parse; they are held here
\* as "0".
IsIPv6Parts(parts) ==
    /\ Len(parts) >= 3
    /\ FirstIndex(parts[Len(parts)], ".") # 0 => IsIPv4Address(parts[Len(parts)])
    /\ IsHextets(IF FirstIndex(parts[Len(parts)], ".") # 0
                 THEN SubSeq(parts, 1, Len(parts) - 1) \o << <<"0">>, <<"0">> >>
                 ELSE parts)

\* ipaddress: IPv6Address(s) succeeds: a scope id after "%" is not empty
\* and holds no "%", and the address before it parses.
IsIPv6Address(s) ==
    /\ FirstIndex(s, "%") # 0
         => (AfterChar(s, "%") # <<>> /\ FirstIndex(AfterChar(s, "%"), "%") = 0)
    /\ IsIPv6Parts(Split(BeforeChar(s, "%"), ":"))

\* _check_bracketed_host(hostname) returns without raising: an IPvFuture
\* name matching \Av[a-fA-F0-9]+\..+\Z, or else an IPv6 address.
check_bracketed_host(hostname) ==
    IF hostname # <<>> /\ hostname[1] = "v"
    THEN /\ FirstIndex(hostname, ".") >= 3
         /\ \A i \in 2..(FirstIndex(hostname, ".") - 1) : hostname[i] \in HEX_DIGITS
         /\ Len(hostname) > FirstIndex(hostname, ".")
    ELSE IsIPv6Address(hostname)

\* netloc.partition('[')[2].partition(']')[0].
BracketedHost(netloc) == BeforeChar(AfterChar(netloc, "["), "]")

\* The checks of urlsplit on the brackets of a netloc pass.
BracketsOk(netloc) ==
    IF FirstIndex(netloc, "[") # 0 /\ FirstIndex(netloc, "]") # 0
    THEN check_bracketed_host(BracketedHost(netloc))
    ELSE FirstIndex(netloc, "[") = 0 /\ FirstIndex(netloc, "]") = 0

\* _splitnetloc(url, 2): the index of the first of "/", "?" and "#" from
\* the third character on, one past the end when there is none.
NetlocEnd(url) ==
    IF \E i \in 3..Len(url) : url[i] \in {"/", "?", "#"}
    THEN CHOOSE i \in 3..Len(url) :
           url[i] \in {"/", "?", "#"} /\ \A j \in 3..(i - 1) : url[j] \notin {"/", "?", "#"}
    ELSE Len(url) + 1

\* url[:2] == '//'.
StartsWithSlashes(url) == Len(url) >= 2 /\ url[1] = "/" /\ url[2] = "/"

\* urlsplit, from the fragment on.  The named characters a netloc can hold
\* here leave _checknetloc without effect.
SplitQuery(scheme, netloc, url, fragment) ==
    [exc |-> "", scheme |-> scheme, netloc |-> netloc, path |-> BeforeChar(url, "?"),
     query |-> AfterChar(url, "?"), fragment |-> fragment]

\* urlsplit, from the checks of the netloc on.
SplitFragment(scheme, netloc, url) ==
    IF ~BracketsOk(netloc) \/ NetlocRefused(netloc) THEN [exc |-> "ValueError"]
    ELSE SplitQuery(scheme, netloc, BeforeChar(url, "#"), AfterChar(url, "#"))

\* urlsplit, from the netloc on.
SplitNetloc(scheme, url) ==
    SplitFragment(scheme,
                  IF StartsWithSlashes(url) THEN SubSeq(url, 3, NetlocEnd(url) - 1) ELSE <<>>,
                  IF StartsWithSlashes(url) THEN SubSeq(url, NetlocEnd(url), Len(url)) ELSE url)

\* The index of the ":" that ends the scheme of a url, 0 when the url
\* has no scheme.
SchemeEnd(url) ==
    IF /\ FirstIndex(url, ":") > 1
       /\ url[1] \in CharsOf(LowerLetters) \cup CharsOf(UpperLetters)
       /\ \A k \in 1..(FirstIndex(url, ":") - 1) : url[k] \in scheme_chars
    THEN FirstIndex(url, ":") ELSE 0

\* urlsplit, from the scheme on.
SplitScheme(url, scheme) ==
    SplitNetloc(IF SchemeEnd(url) = 0 THEN scheme
                ELSE JoinChars([k \in 1..(SchemeEnd(url) - 1) |-> ToLower(url[k])]),
                SubSeq(url, SchemeEnd(url) + 1, Len(url)))

\* urlsplit(url, scheme): exc is "" and the five parts are given, or exc
\* names the exception.
urlsplit(url, scheme) ==
    SplitScheme(SelectSeq(LStripC0(url), LAMBDA c : ~UNSAFE_URL_BYTES_TO_REMOVE(c)),
                scheme)

\* _splitparams(url), for a url holding ";": the index of the ";" that
\* splits it, 0 when the last segment has none.
ParamsAt(url) ==
    IF FirstIndex(url, "/") # 0 THEN FindFrom(url, ";", LastIndex(url, "/"))
    ELSE FirstIndex(url, ";")

\* urlparse, with the path split at index i when i is not 0.
SplitParams(parts, i) ==
    IF i = 0 THEN parts @@ [params |-> <<>>]
    ELSE [parts EXCEPT !.path = SubSeq(parts.path, 1, i - 1)]
         @@ [params |-> SubSeq(parts.path, i + 1, Len(parts.path))]

\* urlparse, from the result of urlsplit on.
WithParams(parts) ==
    IF parts.exc # "" THEN parts
    ELSE SplitParams(parts,
                     IF parts.scheme \in uses_params /\ FirstIndex(parts.path, ";") # 0
                     THEN ParamsAt(parts.path) ELSE 0)

\* urlparse(url, scheme).
urlparse(url, scheme) == WithParams(urlsplit(url, scheme))

\* urlunsplit, from the query on.
WithQuery(url, query, fragment) ==
    (IF query # <<>> THEN url \o <<"?">> \o query ELSE url)
    \o (IF fragment # <<>> THEN <<"#">> \o fragment ELSE <<>>)

\* urlunsplit, from the scheme on.
WithScheme(scheme, url, query, fragment) ==
    WithQuery(IF scheme # "" THEN Chars(<<scheme>>) \o <<":">> \o url ELSE url,
              query, fragment)

\* urlunsplit((scheme, netloc, url, query, fragment)).
urlunsplit(scheme, netloc, url, query, fragment) ==
    WithScheme(scheme,
               IF netloc # <<>>
                  \/ (scheme # "" /\ scheme \in uses_netloc /\ ~StartsWithSlashes(url))
               THEN <<"/", "/">> \o netloc
                    \o (IF url # <<>> /\ url[1] # "/" THEN <<"/">> \o url ELSE url)
               ELSE url,
               query, fragment)

\* urlunparse((scheme, netloc, url, params, query, fragment)).
urlunparse(scheme, netloc, url, params, query, fragment) ==
    urlunsplit(scheme, netloc,
               IF params # <<>> THEN url \o <<";">> \o params ELSE url,
               query, fragment)

\* The loop of urljoin over the segments: ".." drops the last resolved
\* segment if there is one, "." is skipped.
RECURSIVE ResolveSegments(_, _)
ResolveSegments(segments, resolved_path) ==
    IF segments = <<>> THEN resolved_path
    ELSE ResolveSegments(Tail(segments),
            IF Head(segments) = <<".", ".">>
            THEN SubSeq(resolved_path, 1, Len(resolved_path) - 1)
            ELSE IF Head(segments) = <<".">> THEN resolved_path
            ELSE Append(resolved_path, Head(segments)))

\* '/'.join(resolved_path) or '/'.
JoinedPath(resolved_path) ==
    IF Join(resolved_path, "/") # <<>> THEN Join(resolved_path, "/") ELSE <<"/">>

\* urljoin, from the loop over the segments on.
ResolvedPath(segments) ==
    JoinedPath(IF segments[Len(segments)] \in {<<".">>, <<".", ".">>}
               THEN Append(ResolveSegments(segments, <<>>), <<>>)
               ELSE ResolveSegments(segments, <<>>))

\* segments[1:-1] = filter(None, segments[1:-1]).
FilterMiddle(segments) ==
    IF Len(segments) <= 2 THEN segments
    ELSE <<segments[1]>>
         \o SelectSeq(SubSeq(segments, 2, Len(segments) - 1), LAMBDA g : g # <<>>)
         \o <<segments[Len(segments)]>>

\* The parts of the path of the base, the last left out when it is not
\* empty.
BaseParts(base_parts) ==
    IF base_parts[Len(base_parts)] # <<>>
    THEN SubSeq(base_parts, 1, Len(base_parts) - 1)
    ELSE base_parts

\* The segments urljoin resolves.
Segments(bpath, path) ==
    IF path # <<>> /\ path[1] = "/" THEN Split(path, "/")
    ELSE FilterMiddle(BaseParts(Split(bpath, "/")) \o Split(path, "/"))

\* urljoin, from the two parsed urls on.
JoinParsed(b, u, src) ==
    IF u.exc # "" THEN Raised(u.exc)
    ELSE IF u.scheme # b.scheme \/ u.scheme \notin uses_relative THEN Built(src)
    ELSE IF u.scheme \in uses_netloc /\ u.netloc # <<>>
         THEN Built(urlunparse(u.scheme, u.netloc, u.path, u.params, u.query, u.fragment))
    ELSE Built(urlunparse(u.scheme,
                          IF u.scheme \in uses_netloc THEN b.netloc ELSE u.netloc,
                          IF u.path = <<>> /\ u.params = <<>> THEN b.path
                          ELSE ResolvedPath(Segments(b.path, u.path)),
                          IF u.path = <<>> /\ u.params = <<>> THEN b.params ELSE u.params,
                          IF u.path = <<>> /\ u.params = <<>> /\ u.query = <<>>
                          THEN b.query ELSE u.query,
                          u.fragment))

\* urljoin, from the parsed base on.
JoinBase(b, src) ==
    IF b.exc # "" THEN Raised(b.exc)
    ELSE JoinParsed(b, urlparse(Chars(src), b.scheme), src)

\* urljoin(base, url) for a base that is a string and a url that is a
\* text: [exc, obj], obj being the joined text.
urljoin(base, src) ==
    IF base = "" THEN Built(src)
    ELSE IF src = <<>> THEN Built(<<base>>)
    ELSE JoinBase(urlparse(Chars(<<base>>), ""), src)

\* s.split('(')[0].
BeforeParen(s) ==
    IF FirstIndex(s, "(") = 0 THEN s ELSE SubSeq(s, 1, FirstIndex(s, "(") - 1)

\* The candidate dict of a target-party row.
CandidateData(row, winner_image_url) ==
    LET base == [party |-> PyStr(Strip(row.party)),
                 leader |-> PyStr(Strip(BeforeParen(Strip(row.name)))),
                 electoral_votes |-> PyStr(Strip(row.electoral_votes)),
                 popular_votes |-> PyStr(Strip(row.popular_votes))]
    IN IF row.winner_class
       THEN base @@ [winner_image_url |-> winner_image_url]
       ELSE base

\* The row loop of scrape_election_year, from the state acc =
\* [election_data, found_parties_count, winning_party].
RECURSIVE YearRowsLoop(_, _, _)
YearRowsLoop(rows, winner_image_url, acc) ==
    IF rows = <<>> THEN acc
    ELSE
      LET row == Head(rows)
      IN IF row.ncells >= 6 /\ InList(Strip(row.party), TARGET_PARTIES)
         THEN
           LET next == [election_data |->
                            Append(acc.election_data,
                                   CandidateData(row, winner_image_url)),
                        found_parties_count |-> acc.found_parties_count + 1,
                        winning_party |->
                            IF row.winner_class THEN PyStr(Strip(row.party))
                            ELSE acc.winning_party]
           IN IF next.found_parties_count = Len(TARGET_PARTIES) THEN next
              ELSE YearRowsLoop(Tail(rows), winner_image_url, next)
         ELSE YearRowsLoop(Tail(rows), winner_image_url, acc)

\* The candidate-image fallback: the first image whose alt text names
\* the winning party gives the URL, written to every entry of that party;
\* an image without src raises, as does a src that urljoin rejects, and
\* the outer handler returns the list as it stands.
ImageFallback(images, winning_party, election_data) ==
    LET hits == {k \in 1..Len(images) : winning_party.v \in images[k].alt_parties}
    IN IF hits = {} THEN election_data
       ELSE
         LET img == images[CHOOSE k \in hits : \A j \in hits : k <= j]
         IN IF IsNone(img.src) THEN election_data
            ELSE IF urljoin(BASE_URL, img.src.v).exc # "" THEN election_data
            ELSE [k \in 1..Len(election_data) |->
                    IF election_data[k].party = winning_party
                    THEN [key \in DOMAIN election_data[k] \cup {"winner_image_url"} |->
                            IF key = "winner_image_url"
                            THEN PyStr(urljoin(BASE_URL, img.src.v).obj)
                            ELSE election_data[k][key]]
                    ELSE election_data[k]]

\* scrape_election_year(year), given the response to the GET of the
\* year's page.  A src that urljoin rejects raises before any row is
\* read, and the outer handler returns the empty list.
scrape_election_year(response) ==
    IF response.outcome # "ok" THEN <<>>
    ELSE
      LET soup == response.soup
          first_join == urljoin(BASE_URL, soup.winner_div_src.v)
          first_url == IF ~IsNone(soup.winner_div_src)
                       THEN PyStr(first_join.obj)
                       ELSE PyNone
          alt_join == urljoin(BASE_URL, soup.alt_src.v)
          winner_image_url ==
              IF ~Truthy(first_url) /\ ~IsNone(soup.alt_src)
              THEN PyStr(alt_join.obj)
              ELSE first_url
      IN IF ~IsNone(soup.winner_div_src) /\ first_join.exc # "" THEN <<>>
         ELSE IF ~Truthy(first_url) /\ ~IsNone(soup.alt_src) /\ alt_join.exc # ""
              THEN <<>>
         ELSE IF IsNone(soup.tbody) THEN <<>>
         ELSE
           LET scan == YearRowsLoop(soup.tbody.v, winner_image_url,
                                    [election_data |-> <<>>,
                                     found_parties_count |-> 0,
                                     winning_party |-> PyNone])
           IN IF Truthy(scan.winning_party) /\ ~Truthy(winner_image_url)
              THEN ImageFallback(soup.candidate_images, scan.winning_party,
                                 scan.election_data)
              ELSE scan.election_data

(* ------------------------------------------------------------------ *)
(* Scrape orchestrator: the sequential code                            *)
(* ------------------------------------------------------------------ *)
DEFAULT_TARGET_YEARS == <<2020, 2016, 2012, 2008, 2004, 2000, 1996, 1992>>
MAX_WORKERS == 5

Range(s) == {s[i] : i \in 1..Len(s)}

\* sorted(list(S)) of a set of integers.
RECURSIVE SortedList(_)
SortedList(S) ==
    IF S = {} THEN <<>>
    ELSE LET m == CHOOSE a \in S : \A b \in S : a <= b
         IN <<m>> \o SortedList(S \ {m})

\* StateElectionScraper.__init__: self.target_years.
InitTargetYears(target_years) ==
    IF target_years # <<>> THEN SortedList(Range(target_years))
    ELSE DEFAULT_TARGET_YEARS

\* The folding of the candidate dicts into the year entry.
RECURSIVE EntryLoop(_, _)
EntryLoop(year_results, year_entry) ==
    IF year_results = <<>> THEN year_entry
    ELSE
      LET candidate_data == Head(year_results)
          party == DictGet(candidate_data, "party")
          leader == DictGet(candidate_data, "leader")
          pop_votes == DictGet(candidate_data, "popular_votes")
          winner_image_url == DictGet(candidate_data, "winner_image_url")
          image == IF Truthy(winner_image_url) THEN winner_image_url
                   ELSE year_entry.winner_image_url
          next == IF party = PyStr(<<"Democratic">>)
                  THEN [year_entry EXCEPT !.dem_leader = leader,
                                          !.dem_votes = pop_votes,
                                          !.winner_image_url = image]
                  ELSE IF party = PyStr(<<"Republican">>)
                  THEN [year_entry EXCEPT !.rep_leader = leader,
                                          !.rep_votes = pop_votes,
                                          !.winner_image_url = image]
                  ELSE year_entry
      IN EntryLoop(Tail(year_results), next)

\* The body of the loop of _fetch_national_year_data: the entry stored
\* for a year whose extraction returned year_results.
YearEntry(year_results) ==
    IF year_results # <<>>
    THEN EntryLoop(year_results,
                   [dem_leader |-> PyNone, rep_leader |-> PyNone,
                    dem_votes |-> PyNone, rep_votes |-> PyNone,
                    winner_image_url |-> PyNone])
    ELSE EmptyDict

\* Mutant: a task that never finds its year in the cache.
CacheGetMiss(cache, year) == EmptyDict

\* self.national_year_data.get(year, {}).
CacheGet(cache, year) == IF year \in DOMAIN cache THEN cache[year] ELSE EmptyDict

\* An object of the data model with its identity: task is the call of
\* scrape_single_state that constructed it.
WithOid(o, oid) == [t |-> o.t, v |-> o.v, oid |-> oid]

\* Mutant: the try encloses the loop, so the first failing year ends it.
RECURSIVE YearsLoopEndsAtFailure(_, _, _, _, _)
YearsLoopEndsAtFailure(parsed, state_obj, cache, task, acc) ==
    IF parsed = <<>> THEN acc
    ELSE
      LET state_year_data == Head(parsed)
          year == state_year_data.year
          national_data == CacheGet(cache, year.v)
          cached == year.v \in DOMAIN acc.year_obj_cache
          made == YearData(year,
                           DictGet(national_data, "dem_leader"),
                           DictGet(national_data, "rep_leader"),
                           DictGet(national_data, "dem_votes"),
                           DictGet(national_data, "rep_votes"),
                           PyNone,
                           DictGet(national_data, "winner_image_url"))
      IN IF ~cached /\ made.exc # "" THEN acc
         ELSE
           LET year_obj == IF cached THEN acc.year_obj_cache[year.v]
                           ELSE WithOid(made.obj, <<"YearData", task, year.v>>)
               year_obj_cache ==
                   [y \in DOMAIN acc.year_obj_cache \cup {year.v} |->
                      IF y = year.v THEN year_obj ELSE acc.year_obj_cache[y]]
               result == ElectionResult(state_obj, year_obj,
                                        state_year_data.dem_pct,
                                        state_year_data.rep_pct,
                                        state_year_data.winner)
           IN IF result.exc # "" THEN acc
              ELSE YearsLoopEndsAtFailure(Tail(parsed), state_obj, cache, task,
                        [year_obj_cache |-> year_obj_cache,
                         results_for_state |-> Append(acc.results_for_state, result.obj)])

\* The loop over the parsed rows in scrape_single_state, from the state
\* acc = [year_obj_cache, results_for_state].
RECURSIVE YearsLoop(_, _, _, _, _)
YearsLoop(parsed, state_obj, cache, task, acc) ==
    IF parsed = <<>> THEN acc
    ELSE
      LET state_year_data == Head(parsed)
          year == state_year_data.year
      IN IF IsNone(year) THEN YearsLoop(Tail(parsed), state_obj, cache, task, acc)
         ELSE
           LET national_data == CacheGet(cache, year.v)
               cached == year.v \in DOMAIN acc.year_obj_cache
               made == YearData(year,
                                DictGet(national_data, "dem_leader"),
                                DictGet(national_data, "rep_leader"),
                                DictGet(national_data, "dem_votes"),
                                DictGet(national_data, "rep_votes"),
                                PyNone,
                                DictGet(national_data, "winner_image_url"))
           IN IF ~cached /\ made.exc # ""
              THEN YearsLoop(Tail(parsed), state_obj, cache, task, acc)
              ELSE
                LET year_obj == IF cached THEN acc.year_obj_cache[year.v]
                                ELSE WithOid(made.obj, <<"YearData", task, year.v>>)
                    year_obj_cache ==
                        [y \in DOMAIN acc.year_obj_cache \cup {year.v} |->
                           IF y = year.v THEN year_obj ELSE acc.year_obj_cache[y]]
                    result == ElectionResult(state_obj, year_obj,
                                             state_year_data.dem_pct,
                                             state_year_data.rep_pct,
                                             state_year_data.winner)
                IN YearsLoop(Tail(parsed), state_obj, cache, task,
                             [year_obj_cache |-> year_obj_cache,
                              results_for_state |->
                                  IF result.exc = ""
                                  THEN Append(acc.results_for_state, result.obj)
                                  ELSE acc.results_for_state])

\* scrape_single_state(state_name, state_url_path), given the response to
\* the GET of the state page and the national-year cache it reads.
scrape_single_state(state_name, response, cache, target_years, task) ==
    LET soup == fetch_and_parse(response)
    IN IF IsNone(soup) THEN <<>>
       ELSE
         LET state_details == parse_state_details(soup)
             made == StateData(PyStr(state_name),
                               state_details.electoral_votes,
                               state_details.total_population)
         IN IF made.exc # "" THEN <<>>
            ELSE (YearsLoop(parse_election_results_table(soup, target_years),
                            WithOid(made.obj, <<"StateData", task>>),
                            cache, task,
                            [year_obj_cache |-> [y \in {} |-> PyNone],
                             results_for_state |-> <<>>])).results_for_state

\* get_state_links_and_names(), given the response to the GET of the
\* directory page.
get_state_links_and_names(response) ==
    LET soup == fetch_and_parse(response)
    IN IF ~IsNone(soup) THEN parse_state_links(soup) ELSE <<>>

(* ------------------------------------------------------------------ *)
(* The pages the model is run on                                        *)
(* ------------------------------------------------------------------ *)
StateNames == <<"Alabama", "Alaska", "Arizona", "Arkansas", "California", "Colorado", "Connecticut", "Delaware", "Florida", "Georgia">>

StateHref(k) == <<"", "states", StateNames[k]>>

\* The anchor of the k-th state: "Alabama (9)" or "12 Alaska".
StateLink(k) ==
    [href |-> StateHref(k),
     text |-> IF k % 2 = 1 THEN <<" ", StateNames[k], " ", "(", "9", ")">>
              ELSE <<"1", "2", " ", StateNames[k]>>]

\* A directory page listing the first n states among anchors the
\* extractor must drop: the index anchor, a number, a deeper path and a
\* second anchor of the first state.
DirectoryPage(n) ==
    [t |-> "BeautifulSoup", content_area |-> TRUE,
     links |-> << [href |-> <<"", "states", "">>, text |-> <<"States A-Z">>],
                  [href |-> <<"", "states", "index">>, text |-> <<"States A-Z">>],
                  [href |-> <<"", "states", "n">>, text |-> <<"4", "2">>] >>
               \o [k \in 1..n |-> StateLink(k)]
               \o << [href |-> <<"", "states", "x", "y">>, text |-> <<"Deep">>] >>
               \o [k \in 1..(IF n = 0 THEN 0 ELSE 1) |->
                      [href |-> <<"", "states", "again">>, text |-> <<StateNames[1]>>]]]

NoContentPage == [t |-> "BeautifulSoup", content_area |-> FALSE, links |-> <<StateLink(1)>>]

VisibleRow(year_text, dem, rep) ==
    [hidden |-> FALSE, ncells |-> 2, year_text |-> year_text,
     nested |-> PyList(<<dem, <<"-">>, rep>>)]

Y2020 == <<"2", "0", "2", "0">>
Y2018 == <<"2", "0", "1", "8">>
\* 2018 in Arabic-Indic digits.
Y2018Arabic == <<"u0662", "u0660", "u0661", "u0668">>
Y2016 == <<"2", "0", "1", "6">>
Y2012 == <<"2", "0", "1", "2">>

\* Rows 2020, 2018, 2016, 2012.
PageA ==
    [t |-> "BeautifulSoup", ev_heading_span |-> PyStr(<<"1", "7">>), ev_alt_span |-> PyNone,
     table |-> PyList(<<
        VisibleRow(Y2020, <<"5", "1", ".", "3", "%">>, <<"4", "6", ".", "8", "%">>),
        VisibleRow(Y2018, <<"5", "0", "%">>, <<"4", "0", "%">>),
        VisibleRow(Y2016 \o <<" ", "*">>, <<" ", "4", "5", ".", "1", " ", "%">>, <<"5", "1", ".", "2", "5">>),
        VisibleRow(Y2012, <<"5", "0", ".", "0", "%">>, <<"5", "0", "%">>) >>)]

\* A hidden row, a one-cell row, a row with no nested table, a row with one
\* nested cell, a row without a year, a tie and a second row of 2020.
PageB ==
    [t |-> "BeautifulSoup", ev_heading_span |-> PyStr(<<"N", "/", "A">>), ev_alt_span |-> PyStr(<<"4">>),
     table |-> PyList(<<
        [hidden |-> TRUE, ncells |-> 2, year_text |-> Y2020,
         nested |-> PyList(<< <<"9", "9", "%">>, <<"-">>, <<"1", "%">> >>)],
        [hidden |-> FALSE, ncells |-> 1, year_text |-> Y2016, nested |-> PyNone],
        [hidden |-> FALSE, ncells |-> 2, year_text |-> Y2016, nested |-> PyNone],
        [hidden |-> FALSE, ncells |-> 3, year_text |-> Y2016,
         nested |-> PyList(<< <<"4", "8", ".", "2", "%">> >>)],
        [hidden |-> FALSE, ncells |-> 2, year_text |-> <<"N", "/", "A">>,
         nested |-> PyList(<< <<"5", "0", "%">>, <<"-">>, <<"5", "0", "%">> >>)],
        VisibleRow(Y2020, <<"4", "9", ".", "5", "%">>, <<"4", "9", ".", "5", "0", "%">>),
        VisibleRow(Y2020, <<"1", "0", "1", "%">>, <<"n", "/", "a">>) >>)]

\* One row, of 2020.  The span after the heading reads a superscript
\* two, on which int() raises, and the large-font span reads 5.
PageOne ==
    [t |-> "BeautifulSoup", ev_heading_span |-> PyStr(<<"xb2">>), ev_alt_span |-> PyStr(<<"5">>),
     table |-> PyList(<<
        VisibleRow(Y2020, <<"4", "0", ".", "5", "%">>, <<"5", "7", ".", "5", "%">>) >>)]

\* The electoral votes read 3 in Arabic-Indic digits.
PageNoTable ==
    [t |-> "BeautifulSoup", ev_heading_span |-> PyStr(<<"u0663">>), ev_alt_span |-> PyNone, table |-> PyNone]

PartyRow(party, name, votes, winner) ==
    [ncells |-> 6, party |-> party, name |-> name,
     electoral_votes |-> <<"3", "0", "6">>, popular_votes |-> votes,
     winner_class |-> winner]

\* A national page with both parties, the Democratic row the winner.
NationalFull(year) ==
    [t |-> "BeautifulSoup", winner_div_src |-> PyStr(<<"/images/", ToString(year), ".png">>),
     alt_src |-> PyNone,
     tbody |-> PyList(<<
        [ncells |-> 2, party |-> <<"Democratic">>, name |-> <<"Header">>,
         electoral_votes |-> <<>>, popular_votes |-> <<>>, winner_class |-> FALSE],
        PartyRow(<<"Democratic">>, <<"Dem", ToString(year), " ", "(", "W", ")">>,
                 <<"8", "1", ",", "2", "8", "3">>, TRUE),
        PartyRow(<<"Libertarian">>, <<"Lib">>, <<"1", ",", "0", "0", "0">>, FALSE),
        PartyRow(<<" ", "Republican">>, <<"Rep", ToString(year)>>,
                 <<"7", "4", ",", "2", "2", "3">>, FALSE),
        PartyRow(<<"Democratic">>, <<"Late">>, <<"5">>, FALSE) >>),
     candidate_images |-> <<>>]

\* A national page with the Republican row alone, the winner, whose image
\* is found among the candidate images.
NationalPartial(year) ==
    [t |-> "BeautifulSoup", winner_div_src |-> PyNone,
     alt_src |-> PyNone,
     tbody |-> PyList(<<
        PartyRow(<<"Republican">>, <<"Rep", ToString(year)>>, <<"N", "/", "A">>, TRUE) >>),
     candidate_images |-> <<
        [alt_parties |-> {<<"Democratic">>}, src |-> PyStr(<<"/images/d.png">>)],
        [alt_parties |-> {<<"Republican">>}, src |-> PyStr(<<"https://", "cdn/r.png">>)] >>]

NationalNoBody ==
    [t |-> "BeautifulSoup", winner_div_src |-> PyNone, alt_src |-> PyStr(<<"/images/alt.png">>),
     tbody |-> PyNone, candidate_images |-> <<>>]

(* ------------------------------------------------------------------ *)
(* State                                                               *)
(* ------------------------------------------------------------------ *)
VARIABLES web, target_years, national_year_data, pc, year_index, state_links, tasks, all_election_results, returned, call

vars == <<web, target_years, national_year_data, pc, year_index, state_links, tasks, all_election_results, returned, call>>

\* web: the responses of the site, fixed through a run:
\*   web.directory     the response to the GET of the directory page
\*   web.national[y]   the response to the GET of the page of year y
\*   web.state[href]   the response to the GET of a state page
\*   web.failing       the tasks (by position in the state list) in which
\*                     an exception other than the handled ones escapes
\* pc: where scrape_all_states stands: "national", "state_list", "submit",
\*   "collect", "done".
\* tasks[k]: the future of the k-th state: stage "unsubmitted", "queued",
\*   "running", "finished" (done, not yet yielded by as_completed) or
\*   "collected"; result and exc once finished.
\* returned: PyNone until scrape_all_states returns, then the list.
\* call: a direct call of one function of the program, for the
\*   specifications that exercise a function on its own: [fn, args, done,
\*   ret]; NoCall in the runs of the orchestrator.

NoCall == [fn |-> "", args |-> <<>>, done |-> FALSE, ret |-> PyNone]

NewCall(fn, args) == [fn |-> fn, args |-> args, done |-> FALSE, ret |-> PyNone]

Returns(c, value) == [fn |-> c.fn, args |-> c.args, done |-> TRUE, ret |-> value]

NewTask == [stage |-> "unsubmitted", result |-> <<>>, exc |-> ""]

Running == {k \in 1..Len(tasks) : tasks[k].stage = "running"}

(* ------------------------------------------------------------------ *)
(* Actions                                                             *)
(* ------------------------------------------------------------------ *)
\* The loop of _fetch_national_year_data has a year left.
CanNationalFetch == pc = "national" /\ year_index <= Len(target_years)

\* Mutant: the loop runs in the background once its first year is
\* fetched, so scrape_all_states goes on to the state list while years are
\* still pending.
NationalFetchBackground ==
    /\ year_index <= Len(target_years)
    /\ LET year == target_years[year_index]
           year_results == scrape_election_year(web.national[year])
       IN national_year_data' =
              [y \in DOMAIN national_year_data \cup {year} |->
                 IF y = year THEN YearEntry(year_results)
                 ELSE national_year_data[y]]
    /\ year_index' = year_index + 1
    /\ pc' = IF pc = "national" THEN "state_list" ELSE pc
    /\ UNCHANGED <<web, target_years, state_links, tasks, all_election_results, returned, call>>

\* Mutant: the loop ends at the first year whose extraction is empty.
NationalFetchStopsOnFailure ==
    /\ pc = "national"
    /\ year_index <= Len(target_years)
    /\ LET year == target_years[year_index]
           year_results == scrape_election_year(web.national[year])
       IN /\ national_year_data' =
                [y \in DOMAIN national_year_data \cup {year} |->
                   IF y = year THEN YearEntry(year_results)
                   ELSE national_year_data[y]]
          /\ pc' = IF year_index = Len(target_years) \/ year_results = <<>>
                   THEN "state_list" ELSE "national"
    /\ year_index' = year_index + 1
    /\ UNCHANGED <<web, target_years, state_links, tasks, all_election_results, returned, call>>

\* One iteration of the loop of _fetch_national_year_data.
NationalFetch ==
    /\ CanNationalFetch
    /\ LET year == target_years[year_index]
           year_results == scrape_election_year(web.national[year])
       IN national_year_data' =
              [y \in DOMAIN national_year_data \cup {year} |->
                 IF y = year THEN YearEntry(year_results)
                 ELSE national_year_data[y]]
    /\ year_index' = year_index + 1
    /\ pc' = IF year_index = Len(target_years) THEN "state_list" ELSE "national"
    /\ UNCHANGED <<web, target_years, state_links, tasks, all_election_results, returned, call>>

\* The national loop is over and the state list not yet asked for.
CanGetStateLinks == pc = "state_list"

\* Mutant: no early return on an empty mapping.
GetStateLinksNoReturn ==
    /\ pc = "state_list"
    /\ LET links == get_state_links_and_names(web.directory)
       IN /\ state_links' = links
          /\ tasks' = [k \in 1..Len(links) |-> NewTask]
    /\ pc' = "submit"
    /\ UNCHANGED <<web, target_years, national_year_data, year_index, all_election_results, returned, call>>

\* scrape_all_states from the state list to the decision to go on: an
\* empty mapping returns the empty list.
GetStateLinks ==
    /\ CanGetStateLinks
    /\ LET links == get_state_links_and_names(web.directory)
       IN /\ state_links' = links
          /\ tasks' = [k \in 1..Len(links) |-> NewTask]
          /\ IF links = <<>>
             THEN pc' = "done" /\ returned' = PyList(all_election_results)
             ELSE pc' = "submit" /\ returned' = returned
    /\ UNCHANGED <<web, target_years, national_year_data, year_index, all_election_results, call>>

\* The submission loop stands at the k-th item of state_links.items().
CanSubmit(k) ==
    /\ pc = "submit"
    /\ k \in 1..Len(tasks)
    /\ tasks[k].stage = "unsubmitted"
    /\ \A j \in 1..(k - 1) : tasks[j].stage # "unsubmitted"

\* executor.submit of the next state of state_links.items().
Submit(k) ==
    /\ CanSubmit(k)
    /\ tasks' = [tasks EXCEPT ![k].stage = "queued"]
    /\ pc' = IF k = Len(tasks) THEN "collect" ELSE "submit"
    /\ UNCHANGED <<web, target_years, national_year_data, year_index, state_links, all_election_results, returned, call>>

\* Mutant: a pool that starts a worker for every queued item.
CanStartUnbounded(k) ==
    /\ k \in 1..Len(tasks)
    /\ tasks[k].stage = "queued"
    /\ \A j \in 1..(k - 1) : tasks[j].stage # "queued"

\* A worker of the pool takes the oldest queued work item; the pool holds
\* at most MAX_WORKERS workers, each running one item at a time.
CanStart(k) ==
    /\ k \in 1..Len(tasks)
    /\ tasks[k].stage = "queued"
    /\ \A j \in 1..(k - 1) : tasks[j].stage # "queued"
    /\ Cardinality(Running) < MAX_WORKERS

Start(k) ==
    /\ CanStart(k)
    /\ tasks' = [tasks EXCEPT ![k].stage = "running"]
    /\ UNCHANGED <<web, target_years, national_year_data, pc, year_index, state_links, all_election_results, returned, call>>

\* Mutant: a GET without timeout, which never returns when the page fails.
CanRunOnlyFetched(k) ==
    /\ k \in 1..Len(tasks)
    /\ tasks[k].stage = "running"
    /\ k \notin web.failing
    /\ web.state[state_links[k].href].outcome = "ok"

\* A worker is in scrape_single_state for the k-th state, and the call
\* returns: the GET carries a timeout and every exception of the fetch
\* becomes None, so the call returns whatever the site answers.
CanRun(k) ==
    /\ k \in 1..Len(tasks)
    /\ tasks[k].stage = "running"
    /\ k \notin web.failing

\* A worker is in scrape_single_state for the k-th state, and the call
\* ends by an exception.
CanRaise(k) ==
    /\ k \in 1..Len(tasks)
    /\ tasks[k].stage = "running"
    /\ k \in web.failing

\* Mutant: the task takes its years out of the shared cache (pop for get).
RunWritesCache(k) ==
    /\ k \in 1..Len(tasks)
    /\ tasks[k].stage = "running"
    /\ k \notin web.failing
    /\ LET result == scrape_single_state(state_links[k].name,
                                         web.state[state_links[k].href],
                                         national_year_data, target_years, k)
           read == {result[i].v.year_info.v.year.v : i \in 1..Len(result)}
       IN /\ tasks' = [tasks EXCEPT ![k].stage = "finished", ![k].result = result]
          /\ national_year_data' =
                 [y \in DOMAIN national_year_data \ read |-> national_year_data[y]]
    /\ UNCHANGED <<web, target_years, pc, year_index, state_links, all_election_results, returned, call>>

\* The call of scrape_single_state in a worker, to its return.
Run(k) ==
    /\ CanRun(k)
    /\ tasks' = [tasks EXCEPT ![k].stage = "finished",
                              ![k].result = scrape_single_state(
                                                state_links[k].name,
                                                web.state[state_links[k].href],
                                                national_year_data,
                                                target_years, k)]
    /\ UNCHANGED <<web, target_years, national_year_data, pc, year_index, state_links, all_election_results, returned, call>>

\* The call of scrape_single_state in a worker, ended by an exception that
\* the function does not handle: the future holds the exception.
TaskRaise(k) ==
    /\ CanRaise(k)
    /\ tasks' = [tasks EXCEPT ![k].stage = "finished", ![k].exc = "Exception"]
    /\ UNCHANGED <<web, target_years, national_year_data, pc, year_index, state_links, all_election_results, returned, call>>

\* Mutant: the list is assigned the results of the future, not extended.
CollectedAssign(results, task) ==
    IF task.exc = "" /\ task.result # <<>> THEN task.result
    ELSE results

\* The list after one iteration of the as_completed loop on a future.
Collected(results, task) ==
    IF task.exc = "" /\ task.result # <<>> THEN results \o task.result
    ELSE results

\* as_completed has a done future to yield.
CanCollect(k) ==
    /\ pc = "collect"
    /\ k \in 1..Len(tasks)
    /\ tasks[k].stage = "finished"

\* Mutant: future.result() outside a try: the exception of the task leaves
\* scrape_all_states.
CollectUncaught(k) ==
    /\ pc = "collect"
    /\ k \in 1..Len(tasks)
    /\ tasks[k].stage = "finished"
    /\ all_election_results' = Collected(all_election_results, tasks[k])
    /\ tasks' = [tasks EXCEPT ![k].stage = "collected"]
    /\ pc' = IF tasks[k].exc # "" THEN "raised" ELSE pc
    /\ UNCHANGED <<web, target_years, national_year_data, year_index, state_links, returned, call>>

\* One iteration of the as_completed loop: a done future is yielded.
Collect(k) ==
    /\ CanCollect(k)
    /\ all_election_results' = Collected(all_election_results, tasks[k])
    /\ tasks' = [tasks EXCEPT ![k].stage = "collected"]
    /\ UNCHANGED <<web, target_years, national_year_data, pc, year_index, state_links, returned, call>>

\* Mutant: the list is returned without waiting for the futures.
CanReturnWithoutWaiting == pc = "collect"
\* Every future has been yielded.
CanReturn == pc = "collect" /\ \A k \in 1..Len(tasks) : tasks[k].stage = "collected"

\* as_completed is exhausted, the executor is shut down, the list returned.
Return ==
    /\ CanReturn
    /\ pc' = "done"
    /\ returned' = PyList(all_election_results)
    /\ UNCHANGED <<web, target_years, national_year_data, year_index, state_links, tasks, all_election_results, call>>

Next ==
    \/ NationalFetch
    \/ GetStateLinks
    \/ \E k \in 1..Len(tasks) : Submit(k)
    \/ \E k \in 1..Len(tasks) : Start(k)
    \/ \E k \in 1..Len(tasks) : Run(k)
    \/ \E k \in 1..Len(tasks) : TaskRaise(k)
    \/ \E k \in 1..Len(tasks) : Collect(k)
    \/ Return

(* ------------------------------------------------------------------ *)
(* Specifications                                                      *)
(* ------------------------------------------------------------------ *)
\* The state after StateElectionScraper(target_years), on the site web.
InitWith(arg, site) ==
    /\ target_years = InitTargetYears(arg)
    /\ web = site
    /\ national_year_data = [y \in {} |-> EmptyDict]
    /\ pc = "national"
    /\ year_index = 1
    /\ state_links = <<>>
    /\ tasks = <<>>
    /\ all_election_results = <<>>
    /\ returned = PyNone
    /\ call = NoCall

TargetYearArgs == { <<2020, 2016, 2020>>, <<2016>> }

\* Per year: a complete page, a page with one party, and an extraction
\* that returns nothing (no table body for 2020, a failed GET otherwise).
NationalResponses(year) ==
    { IF year = 2020 THEN OkResponse(NationalNoBody) ELSE FailedResponse("Timeout"),
      OkResponse(NationalFull(year)), OkResponse(NationalPartial(year)) }

DirectoryResponses ==
    { FailedResponse("ConnectionError"), OkResponse(NoContentPage) }
    \cup { OkResponse(DirectoryPage(n)) : n \in 0..NumStates }

StateResponses ==
    { FailedResponse("HTTPError"), OkResponse(PageA), OkResponse(PageB) }

\* The sites of the main specification: every combination of the
\* responses above, and of the tasks that raise.
Sites(years) ==
    UNION { LET links == get_state_links_and_names(dir)
                hrefs == {links[k].href : k \in 1..Len(links)}
            IN [directory : {dir},
                national : [Range(years) -> UNION {NationalResponses(y) : y \in Range(years)}],
                state : [hrefs -> StateResponses],
                failing : SUBSET (1..Len(links))]
          : dir \in DirectoryResponses }

Init ==
    \E arg \in TargetYearArgs :
      \E site \in Sites(InitTargetYears(arg)) :
        /\ \A y \in DOMAIN site.national : site.national[y] \in NationalResponses(y)
        /\ InitWith(arg, site)

Spec == Init /\ [][Next]_vars

\* Some step of scrape_all_states can be taken: ENABLED <<Next>>_vars
\* written out.  Every action is its guard and assignments that always
\* have a value and change pc, year_index or the stage of a task.
CanStep ==
    \/ CanNationalFetch
    \/ CanGetStateLinks
    \/ \E k \in 1..Len(tasks) : CanSubmit(k)
    \/ \E k \in 1..Len(tasks) : CanStart(k)
    \/ \E k \in 1..Len(tasks) : CanRun(k)
    \/ \E k \in 1..Len(tasks) : CanRaise(k)
    \/ \E k \in 1..Len(tasks) : CanCollect(k)
    \/ CanReturn

\* The main thread and the workers keep running: WF_vars(Next), its
\* ENABLED written out as CanStep.
Fairness == []<>(~CanStep) \/ []<><<Next>>_vars

FairSpec == Spec /\ Fairness

\* The worker-pool specification: one more state than the pool has
\* workers (PoolExtra more), each page holding one row of the target year;
\* the fetch of at most one state fails, and at most one task raises.
\* The runs of Spec in which the main thread does return once the
\* as_completed loop is exhausted.
MainThreadFairness == WF_vars(Return)

OrderSpec == Spec /\ MainThreadFairness
PoolStates == MAX_WORKERS + PoolExtra

PoolSites ==
    [directory : {OkResponse(DirectoryPage(PoolStates))},
     national : {[y \in {2020} |-> OkResponse(NationalFull(y))]},
     state : {[h \in {StateHref(k) : k \in 1..PoolStates} |->
                 IF bad # 0 /\ h = StateHref(bad) THEN FailedResponse("Timeout")
                 ELSE OkResponse(PageOne)] : bad \in {0, 1, PoolStates}},
     failing : {{}, {2}}]

PoolInit == \E site \in PoolSites : InitWith(<<2020>>, site)

SpecPool == PoolInit /\ [][Next]_vars

(* ------------------------------------------------------------------ *)
(* Direct calls of one function                                        *)
(* ------------------------------------------------------------------ *)
NoSite == [directory |-> FailedResponse("ConnectionError"), national |-> <<>>, state |-> <<>>, failing |-> {}]

\* No run of scrape_all_states: the function of call c is about to be
\* called on its arguments.
CallInit(c) ==
    /\ target_years = <<>>
    /\ web = NoSite
    /\ national_year_data = [y \in {} |-> EmptyDict]
    /\ pc = "idle"
    /\ year_index = 1
    /\ state_links = <<>>
    /\ tasks = <<>>
    /\ all_election_results = <<>>
    /\ returned = PyNone
    /\ call = c

\* The call of parse_election_results_table(soup, target_years).
CallTable ==
    /\ call.fn = "parse_election_results_table"
    /\ ~call.done
    /\ call' = Returns(call, parse_election_results_table(call.args.soup, call.args.target_years))
    /\ UNCHANGED <<web, target_years, national_year_data, pc, year_index, state_links, tasks, all_election_results, returned>>

MaxRows == 4

\* The rows the tables are made of: rows of 2020, 2018 (in Arabic-Indic
\* digits, which \d matches and int() reads), 2016 and 2012, a
\* hidden row, a row of one cell and a row without a year.
TableRows ==
    { VisibleRow(Y2020, <<"5", "1", ".", "3", "%">>, <<"4", "6", ".", "8", "%">>),
      VisibleRow(Y2018Arabic, <<"5", "0", "%">>, <<"4", "0", "%">>),
      VisibleRow(Y2016 \o <<" ", "*">>, <<"4", "5", "%">>, <<"5", "1", ".", "2", "5">>),
      VisibleRow(Y2012, <<"5", "0", ".", "0", "%">>, <<"5", "0", "%">>),
      [hidden |-> TRUE, ncells |-> 2, year_text |-> Y2020,
       nested |-> PyList(<< <<"9", "9", "%">>, <<"-">>, <<"1", "%">> >>)],
      [hidden |-> FALSE, ncells |-> 1, year_text |-> Y2020, nested |-> PyNone],
      [hidden |-> FALSE, ncells |-> 2, year_text |-> <<"N", "/", "A">>, nested |-> PyNone] }

Tables == UNION { [1..n -> TableRows] : n \in 0..MaxRows }

TablePage(rows) ==
    [t |-> "BeautifulSoup", ev_heading_span |-> PyNone, ev_alt_span |-> PyNone, table |-> PyList(rows)]

TableTargets == { <<2016, 2020>>, <<2020>>, <<2012>> }

TableInit ==
    \E rows \in Tables, T \in TableTargets :
        CallInit(NewCall("parse_election_results_table", [soup |-> TablePage(rows), target_years |-> T]))

SpecTable == TableInit /\ [][CallTable]_vars

\* The call of scrape_single_state(state_name, state_url_path) of a
\* scraper whose cache is call.args.cache.
CallSingleState ==
    /\ call.fn = "scrape_single_state"
    /\ ~call.done
    /\ call' = Returns(call, scrape_single_state(call.args.state_name, call.args.response, call.args.cache, call.args.target_years, call.args.task))
    /\ UNCHANGED <<web, target_years, national_year_data, pc, year_index, state_links, tasks, all_election_results, returned>>

\* What the cache may hold for a year: the entry of a complete page, of a
\* page with one party, and the empty entry.
CacheEntries(year) ==
    { YearEntry(scrape_election_year(OkResponse(NationalFull(year)))),
      YearEntry(scrape_election_year(OkResponse(NationalPartial(year)))),
      EmptyDict }

\* The caches over the years 2016 and 2020, either of them with or
\* without an entry.
MergeCaches ==
    UNION { { c \in [Y -> UNION {CacheEntries(y) : y \in Y}] : \A y \in Y : c[y] \in CacheEntries(y) }
            : Y \in SUBSET {2016, 2020} }

MergeResponses == { OkResponse(PageA), OkResponse(PageB), OkResponse(PageOne), FailedResponse("Timeout") }

MergeInit ==
    \E cache \in MergeCaches, response \in MergeResponses, T \in { <<2016, 2020>>, <<2012, 2016, 2020>> } :
        CallInit(NewCall("scrape_single_state",
                         [state_name |-> <<"Alabama">>, response |-> response,
                          cache |-> cache, target_years |-> T, task |-> 1]))

SpecMerge == MergeInit /\ [][CallSingleState]_vars

(* ------------------------------------------------------------------ *)
(* Direct calls of the data model and of the state task                *)
(* ------------------------------------------------------------------ *)
\* The call StateData(state_name, electoral_votes, total_population).
CallStateData ==
    /\ call.fn = "StateData"
    /\ ~call.done
    /\ call' = Returns(call, StateData(call.args.state_name, call.args.electoral_votes, call.args.total_population))
    /\ UNCHANGED <<web, target_years, national_year_data, pc, year_index, state_links, tasks, all_election_results, returned>>

\* The call YearData(year, dem_votes=..., rep_votes=..., total_votes=...).
CallYearData ==
    /\ call.fn = "YearData"
    /\ ~call.done
    /\ call' = Returns(call, YearData(call.args.year, PyNone, PyNone, call.args.dem_votes, call.args.rep_votes, call.args.total_votes, PyNone))
    /\ UNCHANGED <<web, target_years, national_year_data, pc, year_index, state_links, tasks, all_election_results, returned>>

\* The call ElectionResult(state_info, year_info, dem_percentage,
\* rep_percentage, winner).
CallElectionResult ==
    /\ call.fn = "ElectionResult"
    /\ ~call.done
    /\ call' = Returns(call, ElectionResult(call.args.state_info, call.args.year_info, call.args.dem_percentage, call.args.rep_percentage, call.args.winner))
    /\ UNCHANGED <<web, target_years, national_year_data, pc, year_index, state_links, tasks, all_election_results, returned>>

\* The float n / 10^d.
Decimal(n, d) == PyFloat(n * Pow10(FracDigits - d))

AStateData == StateData(PyStr(<<"Alabama">>), PyInt(9), PyNone).obj

AYearData == YearData(PyInt(2020), PyNone, PyNone, PyNone, PyNone, PyNone, PyNone).obj

\* Percentages given to the constructor: absent, inside the range, on its
\* ends, just outside it, and values that are no numbers.
PercentArgs ==
    { PyNone, Decimal(513, 1), Decimal(468, 1), Decimal(0, 0), Decimal(100, 0),
      Decimal(1001, 1), PyFloat(-1), PyInt(50), PyInt(101), PyInt(-1),
      PyStr(<<"5", "0">>) }

WinnerArgs == { PyNone, DEMOCRATIC, REPUBLICAN, OTHER_PARTY }

ElectionResultCalls ==
    { NewCall("ElectionResult",
              [state_info |-> si, year_info |-> yi, dem_percentage |-> d,
               rep_percentage |-> r, winner |-> w])
      : si \in {AStateData, PyStr(<<"Alabama">>)}, yi \in {AYearData, PyNone},
        d \in PercentArgs, r \in PercentArgs, w \in WinnerArgs }

StateDataCalls ==
    { NewCall("StateData", [state_name |-> n, electoral_votes |-> ev, total_population |-> tp])
      : n \in {PyStr(<<"Alabama">>), PyStr(<<>>), PyNone, PyInt(5), PyInt(0)},
        ev \in {PyNone, PyInt(9), PyInt(0), PyStr(<<"9">>), Decimal(9, 0)},
        tp \in {PyNone, PyInt(5024279), PyStr(<<"5">>)} }

MaxVoteLen == 3

VoteChars == {"8", "0", ",", " ", "-", "a"}

\* Vote arguments: every text of up to MaxVoteLen characters, the texts
\* of the examples, a text of fullwidth digits, a text with a superscript
\* digit, floats, integers and a value of another type.
VoteArgs ==
    { PyStr(t) : t \in UNION { [1..n -> VoteChars] : n \in 0..MaxVoteLen } }
    \cup { PyStr(<<"8", "1", ",", "2", "8", "3", ",", "5", "0", "1">>),
           PyStr(<<"-", "5">>), PyStr(<<"a", "b", "c">>), PyStr(<<" ", "1", "\r", "2", "\n">>),
           PyStr(<<"N", "/", "A">>), PyStr(<<"uff11", ",", "uff12">>), PyStr(<<"1", "xb2">>) }
    \cup { PyNone, Decimal(5, 0), Decimal(55, 1), Decimal(0, 0), PyFloat(0 - Scale), PyFloat(-1),
           PyInt(7), PyInt(0), PyInt(-3), PyList(<<>>) }

YearDataCalls ==
    { NewCall("YearData", [year |-> PyInt(2020), dem_votes |-> d, rep_votes |-> r, total_votes |-> t])
      : d \in VoteArgs, r \in {PyNone, PyStr(<<"7", ",", "0">>)}, t \in {PyNone, PyInt(-3)} }

\* Rows with one percentage alone: the Democratic one (a nested row of
\* one cell, or an unreadable Republican cell) or the Republican one.
PageC ==
    [t |-> "BeautifulSoup", ev_heading_span |-> PyStr(<<"9">>), ev_alt_span |-> PyNone,
     table |-> PyList(<<
        [hidden |-> FALSE, ncells |-> 2, year_text |-> Y2020,
         nested |-> PyList(<< <<"4", "8", ".", "2", "%">> >>)],
        VisibleRow(Y2016, <<"n", "/", "a">>, <<"5", "5", "%">>),
        VisibleRow(Y2012, <<"6", "0", "%">>, <<"1", "0", "1", "%">>),
        VisibleRow(Y2012, <<"6", "0", "%">>, <<"4", "0", "%">>) >>)]

\* A cache entry that no run of _fetch_national_year_data stores: its
\* leader is a number, and YearData refuses it.
CorruptEntry ==
    [dem_leader |-> PyInt(7), rep_leader |-> PyNone, dem_votes |-> PyNone,
     rep_votes |-> PyNone, winner_image_url |-> PyNone]

RecordCaches ==
    { [y \in {2016, 2020} |->
          IF y \in bad THEN CorruptEntry
          ELSE YearEntry(scrape_election_year(OkResponse(NationalFull(y))))]
      : bad \in SUBSET {2016, 2020} }

SingleStateCalls ==
    { NewCall("scrape_single_state",
              [state_name |-> n, response |-> OkResponse(page), cache |-> c,
               target_years |-> <<2012, 2016, 2020>>, task |-> 1])
      : n \in { <<"Alabama">>, <<>> }, page \in {PageA, PageB, PageC}, c \in RecordCaches }

RecordsInit ==
    \E c \in StateDataCalls \cup YearDataCalls \cup ElectionResultCalls \cup SingleStateCalls :
        CallInit(c)

RecordsNext ==
    \/ CallStateData
    \/ CallYearData
    \/ CallElectionResult
    \/ CallSingleState

SpecRecords == RecordsInit /\ [][RecordsNext]_vars

(* ------------------------------------------------------------------ *)
(* Direct calls of parse_percentage                                     *)
(* ------------------------------------------------------------------ *)
\* The call of parse_percentage(text).
CallParsePercentage ==
    /\ call.fn = "parse_percentage"
    /\ ~call.done
    /\ call' = Returns(call, parse_percentage(call.args.text))
    /\ UNCHANGED <<web, target_years, national_year_data, pc, year_index, state_links, tasks, all_election_results, returned>>

DigitChar(k) == CHOOSE c \in Digits : DigitValue(c) = k

\* The decimal writing of a natural number.
RECURSIVE DigitsOf(_)
DigitsOf(k) ==
    IF k < 10 THEN <<DigitChar(k)>>
    ELSE DigitsOf(k \div 10) \o <<DigitChar(k % 10)>>

\* The decimal token of n / 10^d with d digits after the dot: Written(425, 1)
\* is "42.5", Written(42, 0) is "42", Written(10005, 2) is "100.05".
Written(n, d) ==
    DigitsOf(n \div Pow10(d))
    \o (IF d = 0 THEN <<>>
        ELSE <<".">> \o [i \in 1..d |-> DigitChar((n \div Pow10(d - i)) % 10)])

\* The values written: every tenth up to MaxTenths, every whole number up
\* to MaxWhole, some hundredths, among them values just above 100, and
\* some thousandths.
MaxTenths == 1020
MaxWhole == 102
Hundredths == {5, 4250, 5125, 9999, 10000, 10001, 10005, 10010, 10011, 10100}

\* Values with three digits after the dot, and a text with a second dot:
\* "1.2.34" is read as 1.234.
Thousandths == {5, 1235, 42555, 99999, 100000}

DottedTokens == { [text |-> <<"1", ".", "2", ".", "3", "4">>, value |-> Decimal(1234, 3)] }

\* 42.5 in Arabic-Indic digits.
ArabicTokens == { [text |-> <<"u0664", "u0662", ".", "u0665">>, value |-> Decimal(425, 1)] }

PercentTokens ==
    { [text |-> Written(n, 1), value |-> Decimal(n, 1)] : n \in 0..MaxTenths }
    \cup { [text |-> Written(n, 0), value |-> Decimal(n, 0)] : n \in 0..MaxWhole }
    \cup { [text |-> Written(n, 2), value |-> Decimal(n, 2)] : n \in Hundredths }
    \cup { [text |-> Written(n, 3), value |-> Decimal(n, 3)] : n \in Thousandths }
    \cup DottedTokens
    \cup ArabicTokens

\* A token between leading blanks, an optional % sign with or without a
\* blank before it, and trailing blanks.  The argument of the call is
\* text; value is the number the token was written from.
PercentCalls ==
    { NewCall("parse_percentage",
              [text |-> lead \o tok.text \o sign \o trail, value |-> tok.value])
      : tok \in PercentTokens,
        lead \in { <<>>, <<" ", " ">>, <<"\t">> },
        sign \in { <<>>, <<"%">>, <<" ", "%">> },
        trail \in { <<>>, <<" ">>, <<"\r", "\n">> } }

PercentInit == \E c \in PercentCalls : CallInit(c)

PercentNext == CallParsePercentage

SpecPercent == PercentInit /\ [][PercentNext]_vars

(* ------------------------------------------------------------------ *)
(* Direct calls of fetch_and_parse, and state tasks on failing fetches  *)
(* ------------------------------------------------------------------ *)
\* The call of fetch_and_parse(url, session, delay_seconds), given the
\* response to the GET.
CallFetchAndParse ==
    /\ call.fn = "fetch_and_parse"
    /\ ~call.done
    /\ call' = Returns(call, fetch_and_parse(call.args.response))
    /\ UNCHANGED <<web, target_years, national_year_data, pc, year_index, state_links, tasks, all_election_results, returned>>

\* What session.get, raise_for_status and BeautifulSoup can raise: the
\* transport errors of requests and any other exception of the parse.
FetchErrors == {"ConnectionError", "Timeout", "HTTPError", "Exception"}

\* The response of a status that is no 2xx carries a body all the same.
ErrorResponse(page) == [outcome |-> "HTTPError", soup |-> page]

FetchResponses ==
    { FailedResponse(e) : e \in FetchErrors }
    \cup { ErrorResponse(page) : page \in {PageA, PageNoTable} }
    \cup { OkResponse(page) : page \in {PageA, PageB, PageOne, PageNoTable} }

FetchCalls ==
    { NewCall("fetch_and_parse", [response |-> r]) : r \in FetchResponses }
    \cup { NewCall("scrape_single_state",
                   [state_name |-> <<"Alabama">>, response |-> r, cache |-> c,
                    target_years |-> T, task |-> 1])
           : r \in FetchResponses, c \in MergeCaches,
             T \in { <<2016, 2020>>, <<2012, 2016, 2020>> } }

FetchInit == \E c \in FetchCalls : CallInit(c)

FetchNext ==
    \/ CallFetchAndParse
    \/ CallSingleState

SpecFetch == FetchInit /\ [][FetchNext]_vars

(* ------------------------------------------------------------------ *)
(* Direct calls of scrape_election_year                                 *)
(* ------------------------------------------------------------------ *)
\* The call of scrape_election_year(year), given the response to the GET
\* of the year's page.
CallScrapeElectionYear ==
    /\ call.fn = "scrape_election_year"
    /\ ~call.done
    /\ call' = Returns(call, scrape_election_year(call.args.response))
    /\ UNCHANGED <<web, target_years, national_year_data, pc, year_index, state_links, tasks, all_election_results, returned>>

\* The rows of the tables: a winning and a losing row of either target
\* party, a row of another party and a row of two cells.
YearRowKinds ==
    { PartyRow(<<"Democratic">>, <<"Dem", " ", "(", "W", ")">>, <<"8", "1">>, TRUE),
      PartyRow(<<"Democratic">>, <<"Dem">>, <<"8", "0">>, FALSE),
      PartyRow(<<"Republican">>, <<"Rep">>, <<"7", "4">>, TRUE),
      PartyRow(<<" ", "Republican">>, <<"Rep">>, <<"7", "3">>, FALSE),
      PartyRow(<<"Libertarian">>, <<"Lib">>, <<"1">>, FALSE),
      [ncells |-> 2, party |-> <<"Democratic">>, name |-> <<"Header">>,
       electoral_votes |-> <<>>, popular_votes |-> <<>>, winner_class |-> FALSE] }

MaxYearRows == 3

YearTables == UNION { [1..n -> YearRowKinds] : n \in 0..MaxYearRows }

\* A src that urljoin rejects: its host opens a bracket that is not closed.
BadSrc == PyStr(<<"//[cdn.example.org/w.png">>)

\* A src that urljoin rejects: its host holds the account-of sign, whose
\* NFKC form holds a slash.
BadHostSrc == PyStr(<<"//", "u2100", "/w.png">>)

\* Where the page shows the winner's image: in div.winner-image, with a
\* src that is a path or one that urljoin rejects, among the candidate
\* images, with a relative or a scheme-relative src, among candidate
\* images that lack the src attribute or have one that urljoin rejects,
\* or nowhere.
ImageParts ==
    { [winner_div_src |-> PyStr(<<"/images/w.png">>), candidate_images |-> <<>>],
      [winner_div_src |-> BadSrc, candidate_images |-> <<>>],
      [winner_div_src |-> PyNone,
       candidate_images |-> << [alt_parties |-> {<<"Democratic">>}, src |-> PyStr(<<"images/../d.png">>)],
                               [alt_parties |-> {<<"Republican">>}, src |-> PyStr(<<"//cdn.example.org/r.png">>)] >>],
      [winner_div_src |-> PyNone,
       candidate_images |-> << [alt_parties |-> {<<"Democratic">>, <<"Republican">>}, src |-> PyNone] >>],
      [winner_div_src |-> PyNone,
       candidate_images |-> << [alt_parties |-> {<<"Democratic">>, <<"Republican">>}, src |-> BadHostSrc] >>],
      [winner_div_src |-> PyNone, candidate_images |-> <<>>] }

YearPage(rows, images) ==
    [t |-> "BeautifulSoup", winner_div_src |-> images.winner_div_src, alt_src |-> PyNone,
     tbody |-> PyList(rows), candidate_images |-> images.candidate_images]

YearResponses ==
    { FailedResponse(e) : e \in FetchErrors }
    \cup { OkResponse(NationalNoBody) }
    \cup { OkResponse(YearPage(rows, images)) : rows \in YearTables, images \in ImageParts }

YearInit ==
    \E r \in YearResponses : CallInit(NewCall("scrape_election_year", [response |-> r]))

YearNext == CallScrapeElectionYear

SpecYear == YearInit /\ [][YearNext]_vars

(* ------------------------------------------------------------------ *)
(* The national loop over every configuration of the target years      *)
(* ------------------------------------------------------------------ *)
\* The target_years argument of the constructor: the empty list stands
\* for None and [] alike, both falsy.
YearsArgs == { <<>>, <<2016>>, <<2020, 2016, 2020>>, <<2012, 2020, 2012, 2016>>, <<1992, 2024>> }

\* Sites whose national pages are complete or time out and whose state
\* list cannot be fetched.
YearsSites(years) ==
    { [directory |-> FailedResponse("ConnectionError"),
       national |-> [y \in Range(years) |->
                       IF y \in ok THEN OkResponse(NationalFull(y))
                       ELSE FailedResponse("Timeout")],
       state |-> <<>>,
       failing |-> {}]
      : ok \in SUBSET Range(years) }

YearsInit ==
    \E arg \in YearsArgs :
      \E site \in YearsSites(InitTargetYears(arg)) : InitWith(arg, site)

YearsNext ==
    \/ NationalFetch
    \/ GetStateLinks

SpecYears == YearsInit /\ [][YearsNext]_vars

(* ------------------------------------------------------------------ *)
(* Direct calls of parse_state_links                                    *)
(* ------------------------------------------------------------------ *)
\* The call of parse_state_links(soup).
CallParseStateLinks ==
    /\ call.fn = "parse_state_links"
    /\ ~call.done
    /\ call' = Returns(call, parse_state_links(call.args.soup))
    /\ UNCHANGED <<web, target_years, national_year_data, pc, year_index, state_links, tasks, all_election_results, returned>>

\* Anchors: the path of a state, of another state, the index, a deeper
\* path and a path outside /states/, each with a state name, a name with
\* a count or a rank, numbers, a long navigation text, the index title
\* and no text.
AnchorHrefs ==
    { <<"", "states", "alabama">>, <<"", "states", "alaska">>, <<"", "states", "">>,
      <<"", "states", "x", "y">>, <<"", "maps", "alabama">> }

AnchorTexts ==
    { <<"Alabama">>, <<" ", "Alabama", " ", "(", "9", ")">>, <<"u0661", "2", " ", "Alaska">>,
      <<"4", "2">>, <<"1", "2", " ", "3", "4">>,
      <<"Alabama", " ", "(", "9", "\n", " ", "votes", ")">>,
      <<"Presidential", " ", "election", " ", "results", " ", "by", " ", "state">>,
      <<"States A-Z">>, <<>> }

Anchors == { [href |-> h, text |-> t] : h \in AnchorHrefs, t \in AnchorTexts }

MaxLinks == 2

LinkPages ==
    { [t |-> "BeautifulSoup", content_area |-> TRUE, links |-> links]
      : links \in UNION { [1..n -> Anchors] : n \in 0..MaxLinks } }

LinksInit ==
    \E soup \in LinkPages \cup {NoSoup, NoContentPage} :
        CallInit(NewCall("parse_state_links", [soup |-> soup]))

LinksNext == CallParseStateLinks

SpecLinks == LinksInit /\ [][LinksNext]_vars

(* ------------------------------------------------------------------ *)
(* Properties                                                          *)
(* ------------------------------------------------------------------ *)
Submitted == {k \in 1..Len(tasks) : tasks[k].stage # "unsubmitted"}

YearsOf(results) == [i \in 1..Len(results) |-> results[i].v.year_info.v.year.v]

NamesOf(results) == {results[i].v.state_info.v.state_name.v : i \in 1..Len(results)}

\* C1: whenever a state task has been submitted to the pool (queued,
\* running or done), the national loop is over and the cache holds an
\* entry for every target year.
C1_NationalBeforeStates ==
    Submitted # {} =>
        /\ pc \notin {"national", "state_list"}
        /\ year_index = Len(target_years) + 1
        /\ \A y \in Range(target_years) : y \in DOMAIN national_year_data

C1_Witness ==
    /\ Len(target_years) >= 2
    /\ \E k \in 1..Len(tasks) : tasks[k].stage = "running"
    /\ \E k \in 1..Len(tasks) : tasks[k].stage = "unsubmitted"

\* C2: from the first submission on, no step changes national_year_data.
C2_CacheReadOnly ==
    [][Submitted # {} => national_year_data' = national_year_data]_vars

C2_Witness ==
    /\ \E k \in 1..Len(tasks) : tasks[k].stage = "finished" /\ tasks[k].result # <<>>
    /\ \E k \in 1..Len(tasks) : tasks[k].stage = "running"
    /\ \E y \in DOMAIN national_year_data : national_year_data[y] # EmptyDict

\* C3: once the state list has been extracted and is empty,
\* scrape_all_states has returned the empty list and no task exists.
C3_EmptyStateList ==
    (pc \notin {"national", "state_list"} /\ state_links = <<>>) =>
        /\ pc = "done"
        /\ returned = PyList(<<>>)
        /\ tasks = <<>>

C3_Witness ==
    /\ pc = "done"
    /\ state_links = <<>>
    /\ web.directory.outcome = "ok"
    /\ web.directory.soup.content_area
    /\ returned = PyList(<<>>)

C3_WitnessFailedFetch ==
    pc = "done" /\ state_links = <<>> /\ web.directory.outcome # "ok"

FailedFetches == {k \in 1..Len(state_links) : web.state[state_links[k].href].outcome # "ok"}

YieldsOne(k) ==
    Len(scrape_single_state(state_links[k].name, web.state[state_links[k].href],
                            national_year_data, target_years, k)) = 1

\* C4: when no task raises, the fetch of exactly one state fails and every
\* other state yields one result, the returned list holds exactly the
\* results of the other states, one each.
C4_OneFetchFailure ==
    (/\ pc = "done"
     /\ state_links # <<>>
     /\ web.failing = {}
     /\ Cardinality(FailedFetches) = 1
     /\ \A k \in 1..Len(state_links) \ FailedFetches : YieldsOne(k)) =>
        /\ returned.t = "list"
        /\ Len(returned.v) = Len(state_links) - 1
        /\ NamesOf(returned.v) =
               {state_links[k].name : k \in 1..Len(state_links) \ FailedFetches}

C4_Witness ==
    /\ pc = "done"
    /\ web.failing = {}
    /\ Cardinality(FailedFetches) = 1
    /\ Len(state_links) > MAX_WORKERS
    /\ Len(returned.v) = Len(state_links) - 1

\* The results of task k stand in the list, contiguous and in order.
Holds(list, part) ==
    \E i \in 0..(Len(list) - Len(part)) : SubSeq(list, i + 1, i + Len(part)) = part

\* C5: the exception of a task never leaves scrape_all_states, and at the
\* return every task has been collected and the results of every task
\* that did not raise are in the returned list.
C5_NoGlobalAbort ==
    /\ pc # "raised"
    /\ (pc = "done" /\ state_links # <<>>) =>
          /\ returned.t = "list"
          /\ \A k \in 1..Len(tasks) :
                /\ tasks[k].stage = "collected"
                /\ tasks[k].exc = "" => Holds(returned.v, tasks[k].result)

C5_Witness ==
    /\ pc = "done"
    /\ \E k \in 1..Len(tasks) : tasks[k].exc # ""
    /\ \E k \in 1..Len(tasks) :
          tasks[k].exc = "" /\ tasks[k].result # <<>> /\ Holds(returned.v, tasks[k].result)

\* C6: every run reaches DONE with a list returned.
C6_Terminates == <>(pc = "done" /\ returned.t = "list")

C6_Witness ==
    /\ pc = "done"
    /\ returned.t = "list"
    /\ \E y \in DOMAIN web.national : scrape_election_year(web.national[y]) = <<>>
    /\ \E k \in 1..Len(tasks) : tasks[k].exc # ""
    /\ FailedFetches # {}

\* C7: every state of the list has one task, each task is submitted by the
\* time the collection starts, and at most MAX_WORKERS tasks run at once.
C7_BoundedPool ==
    /\ Cardinality(Running) <= MAX_WORKERS
    /\ pc \in {"submit", "collect"} => Len(tasks) = Len(state_links)
    /\ pc = "collect" => Submitted = 1..Len(state_links)
    /\ \A j, k \in 1..Len(state_links) :
          state_links[j].name = state_links[k].name => j = k

C7_Witness ==
    /\ Cardinality(Running) = MAX_WORKERS
    /\ \E k \in 1..Len(tasks) : tasks[k].stage = "queued"

Populated(entry) ==
    /\ DOMAIN entry = {"dem_leader", "rep_leader", "dem_votes", "rep_votes", "winner_image_url"}
    /\ ~IsNone(entry.dem_leader) \/ ~IsNone(entry.rep_leader)

\* C8: after the national phase the cache holds an entry for every target
\* year: the empty one when the extraction of the year returned nothing
\* (failed GET, no table body), a populated one otherwise.
C8_PerYearIsolation ==
    pc # "national" =>
        \A y \in Range(target_years) :
            /\ y \in DOMAIN national_year_data
            /\ IF scrape_election_year(web.national[y]) = <<>>
               THEN national_year_data[y] = EmptyDict
               ELSE Populated(national_year_data[y])

C8_Witness ==
    /\ pc = "state_list"
    /\ Len(target_years) >= 2
    /\ web.national[target_years[1]].outcome # "ok"
    /\ national_year_data[target_years[1]] = EmptyDict
    /\ Populated(national_year_data[target_years[2]])

TableCallDone == call.fn = "parse_election_results_table" /\ call.done

\* The year the extractor reads in the first cell of a row.
RowYear(row) == YearOf(Strip(row.year_text))

RowInTargets(row, T) == ~IsNone(RowYear(row)) /\ InList(RowYear(row).v, T)

RowYears(rows) == [i \in 1..Len(rows) |-> RowYear(rows[i]).v]

OutputYears(out) == [i \in 1..Len(out) |-> out[i].year.v]

\* C9 as stated: the output holds only years of T, and holds every visible
\* row whose year is in T, in table order.
C9_EveryVisibleRow ==
    TableCallDone =>
        LET rows == call.args.soup.table.v
            T == call.args.target_years
            kept == SelectSeq(rows, LAMBDA r : ~r.hidden /\ RowInTargets(r, T))
        IN /\ \A i \in 1..Len(call.ret) : InList(call.ret[i].year.v, T)
           /\ OutputYears(call.ret) = RowYears(kept)

\* C9, amended: the output holds only years of T, and holds every visible
\* row of at least two cells whose year is in T, in table order.
C9_TargetYearFilter ==
    TableCallDone =>
        LET rows == call.args.soup.table.v
            T == call.args.target_years
            kept == SelectSeq(rows, LAMBDA r : ~r.hidden /\ r.ncells >= 2 /\ RowInTargets(r, T))
        IN /\ \A i \in 1..Len(call.ret) : InList(call.ret[i].year.v, T)
           /\ OutputYears(call.ret) = RowYears(kept)

C9_Witness ==
    /\ TableCallDone
    /\ call.args.target_years = <<2016, 2020>>
    /\ Len(call.args.soup.table.v) = 4
    /\ RowYears(call.args.soup.table.v) = <<2020, 2018, 2016, 2012>>
    /\ OutputYears(call.ret) = <<2020, 2016>>

MergeCallDone == call.fn = "scrape_single_state" /\ call.done

\* C10: the call yields one result per extracted row, in order; the
\* YearData of a row whose year has a populated cache entry carries the
\* leaders and the image of the entry and its votes as YearData keeps
\* them, and the YearData of a row whose year has no entry or the empty
\* entry has no leader, no votes and no image.
C10_MergePartialCache ==
    MergeCallDone /\ call.args.response.outcome = "ok" =>
        LET rows == parse_election_results_table(call.args.response.soup, call.args.target_years)
            cache == call.args.cache
            out == call.ret
        IN /\ Len(out) = Len(rows)
           /\ \A i \in 1..Len(rows) :
                LET y == rows[i].year.v
                    info == out[i].v.year_info.v
                IN /\ info.year.v = y
                   /\ out[i].v.dem_percentage = rows[i].dem_pct
                   /\ IF y \in DOMAIN cache /\ cache[y] # EmptyDict
                      THEN /\ info.dem_leader = cache[y].dem_leader
                           /\ info.rep_leader = cache[y].rep_leader
                           /\ info.dem_votes = check_votes(cache[y].dem_votes)
                           /\ info.rep_votes = check_votes(cache[y].rep_votes)
                           /\ info.winner_image_url = cache[y].winner_image_url
                      ELSE /\ IsNone(info.dem_leader) /\ IsNone(info.rep_leader)
                           /\ IsNone(info.dem_votes) /\ IsNone(info.rep_votes)
                           /\ IsNone(info.winner_image_url)

\* The cache holds 2020 alone; the rows of 2020 and 2016 both give a
\* result, the first with the fields of the cache, the second without.
C10_Witness ==
    /\ MergeCallDone
    /\ DOMAIN call.args.cache = {2020}
    /\ \E i, j \in 1..Len(call.ret) :
          /\ call.ret[i].v.year_info.v.year.v = 2020
          /\ call.ret[i].v.year_info.v.dem_leader = PyStr(<<"Dem", "2020">>)
          /\ call.ret[i].v.year_info.v.rep_leader = PyStr(<<"Rep", "2020">>)
          /\ call.ret[i].v.year_info.v.dem_votes = PyInt(81283)
          /\ call.ret[i].v.year_info.v.rep_votes = PyInt(74223)
          /\ ~IsNone(call.ret[i].v.year_info.v.winner_image_url)
          /\ call.ret[j].v.year_info.v.year.v = 2016
          /\ IsNone(call.ret[j].v.year_info.v.dem_leader)
          /\ IsNone(call.ret[j].v.year_info.v.rep_votes)

\* The winner that strict comparison of two present percentages gives.
StrictWinner(dem, rep) ==
    IF NumVal(dem) > NumVal(rep) THEN DEMOCRATIC
    ELSE IF NumVal(rep) > NumVal(dem) THEN REPUBLICAN
    ELSE OTHER_PARTY

ResultCallDone == call.fn = "ElectionResult" /\ call.done

\* C11 as stated: an ElectionResult constructed with both percentages
\* present has the winner that their strict comparison gives.
C11_ConstructorDerivesWinner ==
    (/\ ResultCallDone
     /\ call.ret.exc = ""
     /\ ~IsNone(call.args.dem_percentage)
     /\ ~IsNone(call.args.rep_percentage)) =>
        call.ret.obj.v.winner = StrictWinner(call.args.dem_percentage, call.args.rep_percentage)

\* Exactly one of the two percentages of a record is present.
OnePercentage(r) == IsNone(r.dem_percentage) # IsNone(r.rep_percentage)

\* C12 as stated: a record with exactly one percentage present has the
\* winner Other.
C12_OnePercentageGivesOther ==
    MergeCallDone =>
        \A i \in 1..Len(call.ret) :
            OnePercentage(call.ret[i].v) => call.ret[i].v.winner = OTHER_PARTY

WinnersOf(results) == {results[i].v.winner : i \in 1..Len(results)}

\* C13 as stated: the winner of every record that scrape_all_states
\* returns is Democratic, Republican or absent.
C13_WinnerNeverOther ==
    returned.t = "list" => WinnersOf(returned.v) \subseteq {DEMOCRATIC, REPUBLICAN, PyNone}

\* C13, amended: the winner of every record that scrape_all_states returns
\* is Democratic, Republican, Other or absent.
C13_WinnerValues ==
    returned.t = "list" =>
        WinnersOf(returned.v) \subseteq {DEMOCRATIC, REPUBLICAN, OTHER_PARTY, PyNone}

\* A finished run whose list holds a record of a tie, with the winner
\* Other, beside records of the other three winners.
C13_Witness ==
    /\ pc = "done"
    /\ returned.t = "list"
    /\ WinnersOf(returned.v) = {DEMOCRATIC, REPUBLICAN, OTHER_PARTY, PyNone}

\* A number of the closed range from 0 to 100.
InPercentRange(x) == x.t \in {"int", "float"} /\ 0 <= NumVal(x) /\ NumVal(x) <= 100 * Scale

\* A number outside it.
OutOfPercentRange(x) == x.t \in {"int", "float"} /\ ~InPercentRange(x)

\* C14: every ElectionResult that exists has each percentage absent or in
\* [0, 100]; a construction with a present percentage below 0 or above 100
\* raises and gives no record.
C14_PercentageRange ==
    /\ ResultCallDone =>
          /\ call.ret.exc = "" =>
                /\ call.ret.obj.t = "ElectionResult"
                /\ \A x \in {call.ret.obj.v.dem_percentage, call.ret.obj.v.rep_percentage} :
                      IsNone(x) \/ InPercentRange(x)
          /\ (OutOfPercentRange(call.args.dem_percentage) \/ OutOfPercentRange(call.args.rep_percentage)) =>
                call.ret.exc # "" /\ IsNone(call.ret.obj)
    /\ MergeCallDone =>
          \A i \in 1..Len(call.ret) :
             \A x \in {call.ret[i].v.dem_percentage, call.ret[i].v.rep_percentage} :
                IsNone(x) \/ InPercentRange(x)

C14_Witness ==
    /\ ResultCallDone
    /\ call.args.state_info = AStateData
    /\ call.args.year_info = AYearData
    /\ call.args.dem_percentage = Decimal(100, 0)
    /\ call.args.rep_percentage = Decimal(1001, 1)
    /\ call.ret = Raised("ValueError")

\* YearData refuses the cache entry: a leader that is present and no text.
Refused(entry) ==
    \E key \in {"dem_leader", "rep_leader", "winner_image_url"} :
        key \in DOMAIN entry /\ ~IsNone(entry[key]) /\ entry[key].t # "str"

\* C15: the state task yields a record for every extracted row whose year
\* has no refused cache entry, in row order, whichever rows before or
\* after it failed; the rows of a year whose YearData cannot be built yield
\* nothing.
C15_FailedYearSkipped ==
    (MergeCallDone /\ call.args.state_name # <<>>) =>
        LET rows == parse_election_results_table(call.args.response.soup, call.args.target_years)
            cache == call.args.cache
            kept == SelectSeq(rows, LAMBDA row : ~(row.year.v \in DOMAIN cache /\ Refused(cache[row.year.v])))
        IN /\ Len(call.ret) = Len(kept)
           /\ \A i \in 1..Len(kept) :
                 /\ call.ret[i].v.year_info.v.year = kept[i].year
                 /\ call.ret[i].v.dem_percentage = kept[i].dem_pct
                 /\ call.ret[i].v.rep_percentage = kept[i].rep_pct
                 /\ call.ret[i].v.winner = kept[i].winner

\* The rows are 2020, 2016 and 2012, the entry of 2016 is refused: the
\* rows before and after it both yield their record.
C15_Witness ==
    /\ MergeCallDone
    /\ call.args.response = OkResponse(PageA)
    /\ Refused(call.args.cache[2016])
    /\ ~Refused(call.args.cache[2020])
    /\ YearsOf(call.ret) = <<2020, 2012>>

StateCallDone == call.fn = "StateData" /\ call.done

IsNonEmptyStr(x) == x.t = "str" /\ x.v # <<>>

IsNoneOrInt(x) == x.t \in {"NoneType", "int"}

\* C16: StateData refuses an empty or non-text name (ValueError) and
\* electoral votes or a population that are present and no integer
\* (TypeError), and accepts everything else; the state task given a name
\* StateData refuses returns the empty list, although the page holds rows
\* of target years.
C16_StateFailureGivesEmptyList ==
    /\ StateCallDone =>
         LET a == call.args
         IN IF ~IsNonEmptyStr(a.state_name) THEN call.ret = Raised("ValueError")
            ELSE IF ~IsNoneOrInt(a.electoral_votes) \/ ~IsNoneOrInt(a.total_population)
                 THEN call.ret = Raised("TypeError")
            ELSE /\ call.ret.exc = ""
                 /\ call.ret.obj.v = [state_name |-> a.state_name,
                                      electoral_votes |-> a.electoral_votes,
                                      total_population |-> a.total_population]
    /\ (MergeCallDone /\ call.args.state_name = <<>>) => call.ret = <<>>

\* The task of a state with the empty name, on a page with three rows of
\* target years and a complete cache, has returned the empty list.
C16_Witness ==
    /\ MergeCallDone
    /\ call.args.state_name = <<>>
    /\ call.args.response = OkResponse(PageA)
    /\ \A y \in DOMAIN call.args.cache : ~Refused(call.args.cache[y])
    /\ Len(parse_election_results_table(call.args.response.soup, call.args.target_years)) = 3
    /\ call.ret = <<>>

\* C17: in the list that scrape_all_states returns, any two records of
\* the same year link the same YearData object.
C17_YearRecordSharedAcrossStates ==
    returned.t = "list" =>
        \A i, j \in 1..Len(returned.v) :
            returned.v[i].v.year_info.v.year = returned.v[j].v.year_info.v.year
                => returned.v[i].v.year_info.oid = returned.v[j].v.year_info.oid

YearCallDone == call.fn = "YearData" /\ call.done

EightyOneMillion == <<"8", "1", ",", "2", "8", "3", ",", "5", "0", "1">>

\* The count a vote argument denotes, absent when it denotes none: a text
\* of digits, commas and blanks with a digit in it denotes the number its
\* digits spell, a float without fraction and below zero not, and an
\* integer not below zero, denote themselves.
DenotedVotes(x) ==
    CASE x.t = "str" ->
           IF /\ \A i \in 1..Len(x.v) : IsDecimal(x.v[i]) \/ x.v[i] = "," \/ IsSpace(x.v[i])
              /\ \E i \in 1..Len(x.v) : IsDecimal(x.v[i])
           THEN PyInt(IntOfDigits(SelectSeq(x.v, IsDecimal))) ELSE PyNone
      [] x.t = "float" ->
           IF \E n \in 0..(x.v \div Scale) : x.v = n * Scale
           THEN PyInt(x.v \div Scale) ELSE PyNone
      [] x.t = "int" -> IF x.v >= 0 THEN x ELSE PyNone
      [] OTHER -> PyNone

\* C18: YearData never fails on a vote argument; each vote field holds
\* the count its argument denotes, so it is absent or an integer not
\* below zero; "81,283,501" gives 81283501, and "-5", "abc", 5.5, -1.0
\* and a list give absent.
C18_VoteNormalizer ==
    YearCallDone =>
        LET a == call.args
            o == call.ret.obj.v
        IN /\ call.ret.exc = ""
           /\ o.dem_votes = DenotedVotes(a.dem_votes)
           /\ o.rep_votes = DenotedVotes(a.rep_votes)
           /\ o.total_votes = DenotedVotes(a.total_votes)
           /\ \A v \in {o.dem_votes, o.rep_votes, o.total_votes} :
                 IsNone(v) \/ (v.t = "int" /\ v.v >= 0)
           /\ a.dem_votes = PyStr(EightyOneMillion) => o.dem_votes = PyInt(81283501)
           /\ a.dem_votes \in {PyStr(<<"-", "5">>), PyStr(<<"a", "b", "c">>), Decimal(55, 1),
                               PyFloat(0 - Scale), PyList(<<>>), PyInt(-3)}
                 => IsNone(o.dem_votes)

\* YearData was called with "81,283,501", "7,0" and -3 and holds
\* 81283501, 70 and absent.
C18_Witness ==
    /\ YearCallDone
    /\ call.args.dem_votes = PyStr(EightyOneMillion)
    /\ call.args.rep_votes = PyStr(<<"7", ",", "0">>)
    /\ call.args.total_votes = PyInt(-3)
    /\ call.ret.obj.v.dem_votes = PyInt(81283501)
    /\ call.ret.obj.v.rep_votes = PyInt(70)
    /\ IsNone(call.ret.obj.v.total_votes)

PercentCallDone == call.fn = "parse_percentage" /\ call.done

\* C19: a text written from a value above 100.1 gives absent, and a text
\* written from a value above 100.0 and not above 100.1 gives 100.0.
C19_ClampJustAboveHundred ==
    PercentCallDone =>
        LET v == call.args.value.v
        IN /\ v > Decimal(1001, 1).v => IsNone(call.ret)
           /\ (Decimal(100, 0).v < v /\ v <= Decimal(1001, 1).v) => call.ret = Decimal(100, 0)

\* C20: a text written from a value of [0, 100], with or without the %
\* sign and blanks around the token or before the sign, gives that value
\* as a float.
C20_ValidTokenGivesValue ==
    (PercentCallDone /\ InPercentRange(call.args.value)) =>
        /\ call.ret.t = "float"
        /\ call.ret = call.args.value

\* parse_percentage("  42.5 %") has returned 42.5.
C20_Witness ==
    /\ PercentCallDone
    /\ call.args.text = <<" ", " ", "4", "2", ".", "5", " ", "%">>
    /\ call.ret = PyFloat((85 * Scale) \div 2)

FetchCallDone == call.fn = "fetch_and_parse" /\ call.done

\* C21: fetch_and_parse returns the parsed page when the GET and the
\* parse succeed and None when either raises, whatever was raised, and a
\* state task whose fetch gives None returns the empty list.
C21_FetchErrorsGiveAbsent ==
    /\ FetchCallDone =>
         IF call.args.response.outcome = "ok"
         THEN call.ret = call.args.response.soup
         ELSE call.ret = PyNone
    /\ (MergeCallDone /\ call.args.response.outcome \in FetchErrors) => call.ret = <<>>

\* The state task of a page answered with an error status, whose body
\* holds rows of target years, has returned the empty list.
C21_Witness ==
    /\ MergeCallDone
    /\ call.args.response = ErrorResponse(PageA)
    /\ parse_election_results_table(PageA, call.args.target_years) # <<>>
    /\ call.ret = <<>>

ElectionYearCallDone == call.fn = "scrape_election_year" /\ call.done

\* urljoin raises on a src attribute that is present.
JoinRaises(src) == ~IsNone(src) /\ urljoin(BASE_URL, src.v).exc # ""

\* The extraction raises.  Before the row scan: urljoin rejects the src
\* of a winner image.  After the row scan: the scan found a winner, the
\* page gave no winner image, and the first candidate image that names
\* the winning party has no src attribute or one that urljoin rejects.
ExtractionRaises(soup) ==
    \/ JoinRaises(soup.winner_div_src)
    \/ IsNone(soup.winner_div_src) /\ JoinRaises(soup.alt_src)
    \/ /\ ~IsNone(soup.tbody)
       /\ IsNone(soup.winner_div_src) /\ IsNone(soup.alt_src)
       /\ LET scan == YearRowsLoop(soup.tbody.v, PyNone,
                                   [election_data |-> <<>>, found_parties_count |-> 0,
                                    winning_party |-> PyNone])
              hits == {k \in 1..Len(soup.candidate_images) :
                          scan.winning_party.v \in soup.candidate_images[k].alt_parties}
          IN /\ Truthy(scan.winning_party)
             /\ hits # {}
             /\ \E k \in hits :
                   /\ \A j \in hits : k <= j
                   /\ IsNone(soup.candidate_images[k].src)
                        \/ JoinRaises(soup.candidate_images[k].src)

\* C22: scrape_election_year returns the empty list when the fetch fails,
\* when no table body is found, and when the extraction raises, also after
\* party rows were extracted.
C22_EmptyOnAnyFailure ==
    ElectionYearCallDone =>
        LET r == call.args.response
        IN (r.outcome # "ok" \/ IsNone(r.soup.tbody) \/ ExtractionRaises(r.soup))
               => call.ret = <<>>

\* The rows of a target party among the first n rows of a table.
TargetRows(rows, n) ==
    {i \in 1..n : rows[i].ncells >= 6 /\ InList(Strip(rows[i].party), TARGET_PARTIES)}

\* Both target parties are found among the first n rows.
BothFound(rows, n) ==
    \A p \in Range(TARGET_PARTIES) : \E i \in TargetRows(rows, n) : Strip(rows[i].party) = p

\* The row after which a scan that stops once both parties are found
\* stops: the first row with both parties found, the last row otherwise.
StopRow(rows) ==
    IF BothFound(rows, Len(rows))
    THEN CHOOSE n \in 1..Len(rows) : BothFound(rows, n) /\ ~BothFound(rows, n - 1)
    ELSE Len(rows)

PartiesOf(election_data) == [k \in 1..Len(election_data) |-> election_data[k].party.v]

\* C25: the result holds an entry for each target-party row up to the
\* first row at which both target parties are found, and none for a later
\* row; when target-party rows are left unread, it holds exactly one
\* Democratic and one Republican entry.
C25_StopsWhenBothPartiesFound ==
    (ElectionYearCallDone /\ call.args.response.outcome = "ok" /\ ~IsNone(call.args.response.soup.tbody)) =>
        LET rows == call.args.response.soup.tbody.v
            read == TargetRows(rows, StopRow(rows))
            parties == PartiesOf(call.ret)
        IN /\ Len(call.ret) = Cardinality(read)
           /\ Len(call.ret) < Cardinality(TargetRows(rows, Len(rows)))
                 => \A p \in Range(TARGET_PARTIES) :
                        Cardinality({k \in 1..Len(parties) : parties[k] = p}) = 1

\* C23: the target years stand in ascending order without repetition,
\* whatever was given to the constructor, and the years fetched so far
\* are the first year_index - 1 of them, each fetched once.
C23_TargetYearsAscending ==
    /\ \A i, j \in 1..Len(target_years) : i < j => target_years[i] < target_years[j]
    /\ DOMAIN national_year_data = {target_years[i] : i \in 1..(year_index - 1)}
    /\ Cardinality(DOMAIN national_year_data) = year_index - 1

\* Task k has completed: its future is done.
Completed(k) == tasks[k].stage \in {"finished", "collected"}

\* The tasks whose records stand in a list, one per record.
TasksOf(results) == [i \in 1..Len(results) |-> results[i].v.state_info.oid[2]]

\* In the list a record of task b stands before a record of task a.
Precedes(b, a, results) ==
    \E i, j \in 1..Len(results) :
        i < j /\ TasksOf(results)[i] = b /\ TasksOf(results)[j] = a

\* C24 as stated: the returned list follows the order of completion: when
\* task a has completed and task b has not, no record of b stands before
\* a record of a in the list returned later.
C24_MergeInCompletionOrder ==
    \A a, b \in 1..NumStates :
        []((a \in 1..Len(tasks) /\ b \in 1..Len(tasks) /\ Completed(a) /\ ~Completed(b))
              => [](returned.t = "list" => ~Precedes(b, a, returned.v)))

LinksCallDone == call.fn = "parse_state_links" /\ call.done

\* The number of characters of a text.
CharLen(s) == Len(Chars(s))

\* C26: the names of the mapping are pairwise distinct, none is empty,
\* all digits or longer than 30 characters, and each name has the path of
\* the first anchor of a state path that carries it.
C26_NamesDistinctAndPlausible ==
    LinksCallDone =>
        LET m == call.ret
        IN /\ \A i, j \in 1..Len(m) : m[i].name = m[j].name => i = j
           /\ \A i \in 1..Len(m) :
                 /\ m[i].name # <<>>
                 /\ ~AllDigits(m[i].name)
                 /\ CharLen(m[i].name) <= 30
                 /\ LET links == call.args.soup.links
                        carries == {k \in 1..Len(links) :
                                       /\ CleanStateName(links[k].text) = m[i].name
                                       /\ HrefInStates(links[k].href) /\ Len(links[k].href) = 3
                                       /\ links[k].href # <<"", "states", "">>}
                    IN carries # {} /\ m[i].href = links[CHOOSE k \in carries : \A l \in carries : k <= l].href

\* C27: every value parse_percentage returns has at most two digits after
\* the dot.
C27_RoundedToTwoDecimals ==
    (PercentCallDone /\ ~IsNone(call.ret)) =>
        call.ret.v % Pow10(FracDigits - 2) = 0

\* C28: at the return after a non-empty state list every state has a task
\* and every task is over, none unsubmitted, queued or running, and from
\* the return on no step changes the list, the value returned or a task.
C28_AllTasksOverAtReturn ==
    /\ []((pc = "done" /\ state_links # <<>>) =>
             /\ Len(tasks) = Len(state_links)
             /\ \A k \in 1..Len(tasks) :
                    tasks[k].stage \notin {"unsubmitted", "queued", "running"}
             /\ returned = PyList(all_election_results))
    /\ [][pc = "done" => /\ all_election_results' = all_election_results
                         /\ returned' = returned
                         /\ tasks' = tasks]_vars

\* The run has returned after every state of the list had a task, one of
\* which raised and one of which gave records.
C28_Witness ==
    /\ pc = "done"
    /\ returned.t = "list"
    /\ Len(tasks) = NumStates
    /\ \E k \in 1..Len(tasks) : tasks[k].stage = "collected" /\ tasks[k].exc # ""
    /\ \E k \in 1..Len(tasks) : tasks[k].stage = "collected" /\ tasks[k].result # <<>>

\* The records of a list that belong to the state of the given name.
OfState(results, name) ==
    {i \in 1..Len(results) : results[i].v.state_info.v.state_name.v = name}

\* C29: every record returned carries the name of a state of the state
\* list and a year of the target years, the records of one state link
\* one StateData object, and a record, once in the result of a task or in
\* the list, is never changed.
C29_RecordsOfListedStatesAndYears ==
    /\ [](returned.t = "list" =>
            \A i \in 1..Len(returned.v) :
                LET r == returned.v[i].v
                IN /\ HasName(state_links, r.state_info.v.state_name.v)
                   /\ r.year_info.v.year.v \in Range(target_years)
                   /\ \A j \in OfState(returned.v, r.state_info.v.state_name.v) :
                          returned.v[j].v.state_info = r.state_info)
    /\ [][/\ \A k \in 1..Len(tasks) :
                tasks[k].stage \in {"finished", "collected"} => tasks'[k].result = tasks[k].result
          /\ SubSeq(all_election_results', 1, Len(all_election_results)) = all_election_results]_vars

\* The list returned holds records of two states, two of them of one
\* state, from pages that also hold a row of a year outside the targets.
C29_Witness ==
    /\ returned.t = "list"
    /\ Cardinality({returned.v[i].v.state_info.v.state_name.v : i \in 1..Len(returned.v)}) = 2
    /\ \E i, j \in 1..Len(returned.v) : i # j /\ returned.v[i].v.state_info = returned.v[j].v.state_info
    /\ 2012 \notin Range(target_years)
    /\ \E k \in 1..Len(state_links) : web.state[state_links[k].href] = OkResponse(PageA)

\* The state and the year of a record.
KeyOf(result) == <<result.v.state_info.v.state_name.v, result.v.year_info.v.year.v>>

\* C30: no two records of the list returned are of the same state and
\* the same year.
C30_OneRecordPerStateAndYear ==
    returned.t = "list" =>
        \A i, j \in 1..Len(returned.v) :
            KeyOf(returned.v[i]) = KeyOf(returned.v[j]) => i = j

====
